---- MODULE Spec2Model ----
(***************************************************************************)
(* Knowledge-graph comparison core of ComparisonEngine/triple.py:          *)
(* GraphComparator (text normalisation, the comparison facets),            *)
(* GraphEmbedding.fit, TripleExtractor (extract_triples, _has_citation,    *)
(* _extract_entity_relations), KnowledgeGraphAnalyzer (analyze_files,      *)
(* _read_file) and its construction by run_analysis of api.py.             *)
(*                                                                         *)
(* Representation.  A Python str is a sequence of one-character strings.   *)
(* Percentages and densities that the code rounds to two decimals are kept *)
(* as integers counting hundredths (100.00 is 10000).  Float rounding of   *)
(* round(x, 2) is modelled as round-half-even on the exact quotient.       *)
(***************************************************************************)
EXTENDS Integers, Sequences, FiniteSets, TLC

VARIABLES
    pc,              \* position of the running operation
    text,            \* _normalize_text: the argument
    once,            \* _normalize_text(text)
    twice,           \* _normalize_text(_normalize_text(text))
    triples_a,       \* compare_graphs: triples of source A (list of dicts)
    triples_b,       \* compare_graphs: triples of source B
    text_a,          \* compare_graphs: text of source A
    text_b,          \* compare_graphs: text of source B
    sentence_model,  \* TripleExtractor.sentence_model: "loaded" or "none"
    results,         \* what compare_graphs returned or raised
    grokipedia_file, \* analyze_files: the first file, as the file system holds it
    wikipedia_file,  \* analyze_files: the second file
    report,          \* what analyze_files returned or raised
    random_state,    \* the global random generator of the numeric library
    scheduler,       \* the thread that runs, and how often threads were preempted
    source,          \* extract_triples: the source tag passed to the call
    doc,             \* extract_triples: the parsed text (tokens, entities)
    loads            \* how often the process loaded each language model

normVars == <<text, once, twice>>

inputVars == <<triples_a, triples_b, text_a, text_b>>

fileVars == <<grokipedia_file, wikipedia_file>>

envVars == <<sentence_model, random_state, scheduler>>

callVars == <<source, doc, loads>>

vars == <<pc, text, once, twice, triples_a, triples_b, text_a, text_b,
          sentence_model, results, grokipedia_file, wikipedia_file, report,
          random_state, scheduler, source, doc, loads>>

(***************************************************************************)
(* Bounds                                                                  *)
(***************************************************************************)
MaxLen == 5

MaxTriples == 2

\* how often the scheduler preempts a running invocation
MaxSwitches == 2

\* how many relations the two sources state about one entity
MaxRelations == 10

\* how many tokens stand between two named entities of a document
MaxGap == 10

\* how many analyses one process runs
MaxAnalyses == 2

(***************************************************************************)
(* Strings                                                                 *)
(***************************************************************************)
RECURSIVE BSeq(_, _)
BSeq(S, n) ==
    IF n = 0 THEN {<<>>}
    ELSE LET shorter == BSeq(S, n - 1)
         IN  shorter \cup {Append(s, x) : s \in {q \in shorter : Len(q) = n - 1}, x \in S}

\* str.isspace / the regex class \s, on the characters the model uses
IsSpace(c) == c \in {" ", "\t"}

\* the letters of str.lower and of the regex classes [a-z] and [A-Z]
LowerLetters ==
    {"a", "b", "c", "d", "e", "f", "g", "h", "i", "j", "k", "l", "m",
     "n", "o", "p", "q", "r", "s", "t", "u", "v", "w", "x", "y", "z"}

UpperLetters ==
    {"A", "B", "C", "D", "E", "F", "G", "H", "I", "J", "K", "L", "M",
     "N", "O", "P", "Q", "R", "S", "T", "U", "V", "W", "X", "Y", "Z"}

UpperLower ==
    {<<"A","a">>, <<"B","b">>, <<"C","c">>, <<"D","d">>, <<"E","e">>, <<"F","f">>,
     <<"G","g">>, <<"H","h">>, <<"I","i">>, <<"J","j">>, <<"K","k">>, <<"L","l">>,
     <<"M","m">>, <<"N","n">>, <<"O","o">>, <<"P","p">>, <<"Q","q">>, <<"R","r">>,
     <<"S","s">>, <<"T","t">>, <<"U","u">>, <<"V","v">>, <<"W","w">>, <<"X","x">>,
     <<"Y","y">>, <<"Z","z">>}

LowerChar(c) ==
    IF c \in UpperLetters
    THEN (CHOOSE ul \in UpperLower : ul[1] = c)[2]
    ELSE c

Lower(s) == [i \in 1..Len(s) |-> LowerChar(s[i])]

RECURSIVE LStrip(_)
LStrip(s) ==
    IF s = <<>> THEN s
    ELSE IF IsSpace(Head(s)) THEN LStrip(Tail(s)) ELSE s

RECURSIVE RStrip(_)
RStrip(s) ==
    IF s = <<>> THEN s
    ELSE IF IsSpace(s[Len(s)]) THEN RStrip(SubSeq(s, 1, Len(s) - 1)) ELSE s

\* str.strip()
Strip(s) == RStrip(LStrip(s))

\* re.sub(r'\s\s', ' ', s): every PAIR of whitespace characters becomes one space
RECURSIVE CollapsePairs(_)
CollapsePairs(s) ==
    IF s = <<>> THEN s
    ELSE IF Len(s) >= 2 /\ IsSpace(s[1]) /\ IsSpace(s[2])
         THEN <<" ">> \o CollapsePairs(Tail(Tail(s)))
         ELSE <<Head(s)>> \o CollapsePairs(Tail(s))

\* re.sub(r'\s+', ' ', s): every maximal whitespace run becomes one space
RECURSIVE CollapseWhitespace(_)
CollapseWhitespace(s) ==
    IF s = <<>> THEN s
    ELSE IF IsSpace(Head(s))
         THEN <<" ">> \o CollapseWhitespace(LStrip(Tail(s)))
         ELSE <<Head(s)>> \o CollapseWhitespace(Tail(s))

\* text1 in text2
IsSubstring(text1, text2) ==
    \E i \in 0..(Len(text2) - Len(text1)) :
        SubSeq(text2, i + 1, i + Len(text1)) = text1

\* len(text.split()): the number of maximal runs of non-whitespace
RECURSIVE WordCount(_)
WordCount(s) ==
    IF s = <<>> THEN 0
    ELSE IF IsSpace(Head(s)) THEN WordCount(Tail(s))
    ELSE IF Len(s) >= 2 /\ ~IsSpace(s[2]) THEN WordCount(Tail(s))
    ELSE 1 + WordCount(Tail(s))

_normalize_text_pairs(t) == CollapsePairs(Strip(Lower(t)))

_normalize_text(t) == CollapseWhitespace(Strip(Lower(t)))

(***************************************************************************)
(* Arithmetic                                                              *)
(***************************************************************************)
Max(a, b) == IF a >= b THEN a ELSE b

Abs(n) == IF n < 0 THEN -n ELSE n

\* round(n / d) to the nearest integer, ties to even (Python's round); d > 0
RoundHalfEven(n, d) ==
    LET m == Abs(n)
        q == m \div d
        r == m % d
        up == IF 2 * r > d THEN 1
              ELSE IF 2 * r < d THEN 0
              ELSE q % 2
    IN  IF n < 0 THEN -(q + up) ELSE q + up

\* the division is evaluated whatever the condition says
CondDivUnguarded(guard, n, d, default) ==
    IF d = 0
    THEN [raises |-> TRUE, value |-> 0]
    ELSE [raises |-> FALSE, value |-> RoundHalfEven(n, d)]

\* the Python expression  n / d if guard else default , rounded; a division
\* that is evaluated with d = 0 raises ZeroDivisionError
CondDiv(guard, n, d, default) ==
    IF guard
    THEN IF d = 0
         THEN [raises |-> TRUE, value |-> 0]
         ELSE [raises |-> FALSE, value |-> RoundHalfEven(n, d)]
    ELSE [raises |-> FALSE, value |-> default]

ToSet(seq) == {seq[i] : i \in 1..Len(seq)}

\* the sum and the product of f[x] over x in S, f a function
RECURSIVE SumFn(_, _)
SumFn(f, S) ==
    IF S = {} THEN 0
    ELSE LET x == CHOOSE y \in S : TRUE
         IN  f[x] + SumFn(f, S \ {x})

RECURSIVE ProdFn(_, _)
ProdFn(f, S) ==
    IF S = {} THEN 1
    ELSE LET x == CHOOSE y \in S : TRUE
         IN  f[x] * ProdFn(f, S \ {x})

\* what a facet evaluates to when it raises
Exception(kind) == [error |-> kind]

IsException(v) == DOMAIN v = {"error"}

(***************************************************************************)
(* Triples.  The dicts that extract_triples builds; the fields the         *)
(* comparator reads.                                                       *)
(***************************************************************************)
Triple(s, p, o, sent, cit, meth) ==
    [subject |-> s, predicate |-> p, object |-> o, sentence |-> sent,
     has_citation |-> cit, extraction_method |-> meth]

OxBeLab == Triple(<<"O","x">>, <<"b","e">>, <<"l","a","b">>,
                  <<"O","x"," ","b","e"," ","l","a","b">>, TRUE, "dependency_parsing")

\* OxBeLab in another letter case: a different verbatim string, the same normalised one
oxBeLab == Triple(<<"o","x">>, <<"b","e">>, <<"l","a","b">>,
                  <<"o","x"," ","b","e"," ","l","a","b">>, TRUE, "openie_pattern")

\* a more specific object, written with a whitespace run
OxBeLabR == Triple(<<"O","x">>, <<"b","e">>, <<"l","a","b"," ","\t","r">>,
                   <<"O","x"," ","b","e"," ","l","a","b"," ","r">>, FALSE, "dependency_parsing")

\* an object incompatible with lab
OxBeCat == Triple(<<"O","x">>, <<"b","e">>, <<"C","a","t">>,
                  <<"O","x"," ","b","e"," ","C","a","t">>, FALSE, "openie_pattern")

\* one-letter words only; its predicate makes it a noise triple
XaY == Triple(<<"x">>, <<"a">>, <<"y">>, <<"x"," ","a"," ","y">>, FALSE, "entity_relation")

Universe == {OxBeLab, oxBeLab, OxBeLabR, OxBeCat, XaY}

\* source texts: no word at all, or two words
Texts == {<<" ">>, <<"a", "\t", "b">>}

(***************************************************************************)
(* GraphComparator: helper methods                                         *)
(***************************************************************************)
Pipe == <<"|">>

_triple_to_string(t) == t.subject \o Pipe \o t.predicate \o Pipe \o t.object

_normalize_triple(t) ==
    _normalize_text(t.subject) \o Pipe \o _normalize_text(t.predicate)
        \o Pipe \o _normalize_text(t.object)

_triple_to_sentence(t) == t.subject \o <<" ">> \o t.predicate \o <<" ">> \o t.object

\* only text1 in text2 is tested, not the other direction
_are_compatible_one_way(text1, text2) == IsSubstring(text1, text2)

_are_compatible(text1, text2) == IsSubstring(text1, text2) \/ IsSubstring(text2, text1)

\* defaultdict(set): normalised subject -> set of "predicate:object" strings
_extract_entities(triples) ==
    LET subjects == {_normalize_text(triples[i].subject) : i \in 1..Len(triples)}
    IN  [e \in subjects |->
            {triples[i].predicate \o <<":">> \o triples[i].object :
                i \in {k \in 1..Len(triples) : _normalize_text(triples[k].subject) = e}}]

_get_basic_stats(ta, tb) ==
    [source_a_triples |-> Len(ta),
     source_b_triples |-> Len(tb),
     total_triples    |-> Len(ta) + Len(tb)]

(***************************************************************************)
(* GraphComparator._calculate_triple_overlap                               *)
(***************************************************************************)
\* the score is computed without the test for empty sets
overlap_score_unguarded(overlap, set_a, set_b) ==
    CondDiv(TRUE, Cardinality(overlap) * 10000,
            Max(Cardinality(set_a), Cardinality(set_b)), 0)

\* round((len(overlap) / max(len(set_a), len(set_b)) if max(...) > 0 else 0) * 100, 2)
overlap_score(overlap, set_a, set_b) ==
    LET largest == Max(Cardinality(set_a), Cardinality(set_b))
    IN  CondDiv(largest > 0, Cardinality(overlap) * 10000, largest, 0)

_calculate_triple_overlap(ta, tb) ==
    LET set_a == {_triple_to_string(ta[i]) : i \in 1..Len(ta)}
        set_b == {_triple_to_string(tb[i]) : i \in 1..Len(tb)}
        exact_overlap == set_a \cap set_b
        exact_overlap_score == overlap_score(exact_overlap, set_a, set_b)
        set_a_normalized == {_normalize_triple(ta[i]) : i \in 1..Len(ta)}
        set_b_normalized == {_normalize_triple(tb[i]) : i \in 1..Len(tb)}
        fuzzy_overlap == set_a_normalized \cap set_b_normalized
        fuzzy_overlap_score == overlap_score(fuzzy_overlap, set_a_normalized,
                                             set_b_normalized)
    IN  IF exact_overlap_score.raises \/ fuzzy_overlap_score.raises
        THEN Exception("ZeroDivisionError")
        ELSE [exact_overlap_count |-> Cardinality(exact_overlap),
              exact_overlap_score |-> exact_overlap_score.value,
              fuzzy_overlap_count |-> Cardinality(fuzzy_overlap),
              fuzzy_overlap_score |-> fuzzy_overlap_score.value,
              unique_to_source_a |-> Cardinality(set_a \ set_b),
              unique_to_source_b |-> Cardinality(set_b \ set_a)]

(***************************************************************************)
(* GraphComparator._calculate_semantic_similarity.  The encoder is outside *)
(* the program: `encode` is what it does in this call, it raises or it     *)
(* yields vectors whose pairwise cosine is all 0.0 ("dissimilar") or all   *)
(* 1.0 ("similar").  Similarities are kept in ten-thousandths (round(x,4)).*)
(***************************************************************************)
EncodeOutcomes == {"raise", "dissimilar", "similar"}

\* \w on the characters the model uses
IsWordChar(c) == ~IsSpace(c) /\ c # "|" /\ c # ":"

\* TfidfVectorizer's token_pattern (?u)\b\w\w+\b finds a token in s
HasToken(s) == \E i \in 1..(Len(s) - 1) : IsWordChar(s[i]) /\ IsWordChar(s[i + 1])

SimilarityScores(ta, tb, encode, method) ==
    LET pairs == Len(ta) * Len(tb)
        similar_pairs == IF encode = "similar" THEN pairs ELSE 0
        cosine == IF encode = "similar" THEN 10000 ELSE 0
        similar_pairs_percentage == CondDiv(pairs > 0, similar_pairs * 10000, pairs, 0)
    IN  IF similar_pairs_percentage.raises
        THEN Exception("ZeroDivisionError")
        ELSE [average_similarity |-> cosine,
              max_similarity |-> cosine,
              similar_pairs_count |-> similar_pairs,
              similar_pairs_percentage |-> similar_pairs_percentage.value,
              method |-> method]

_calculate_semantic_similarity(ta, tb, model, encode) ==
    IF Len(ta) = 0 \/ Len(tb) = 0
    THEN [average_similarity |-> 0,
          similar_pairs_count |-> 0,
          method |-> "none (empty input)"]
    ELSE LET sentences_a == [i \in 1..Len(ta) |-> _triple_to_sentence(ta[i])]
             sentences_b == [i \in 1..Len(tb) |-> _triple_to_sentence(tb[i])]
             all_sentences == sentences_a \o sentences_b
         IN  IF model = "loaded"
             THEN IF encode = "raise"
                  THEN Exception("sentence_model.encode")
                  ELSE SimilarityScores(ta, tb, encode, "sentence-transformers")
             ELSE IF \A i \in 1..Len(all_sentences) : ~HasToken(all_sentences[i])
                  THEN Exception("ValueError: empty vocabulary")
                  ELSE SimilarityScores(ta, tb, encode, "tf-idf")

(***************************************************************************)
(* The global random generator that GraphEmbedding.fit draws from: the     *)
(* generator of torch when TORCH_AVAILABLE, else numpy's.  A generator is  *)
(* its seed and the number of draws made since it was seeded; the numbers  *)
(* of one draw are a function of both.                                     *)
(***************************************************************************)
Libraries == {"numpy", "torch"}

FreshGenerator(library) == [library |-> library, seed |-> "initial", drawn |-> 0]

\* the generator in the specifications that do not read it
IdleGenerator == FreshGenerator("numpy")

EmbeddingSeed == 42

\* the scheduler in the specifications with a single thread
OneThread == [running |-> "first", switches |-> 0]

\* np.random.seed(s)
seed(g, s) == [g EXCEPT !.seed = s, !.drawn = 0]

\* the numbers the next draw yields, named by their place in the stream
draw(g) == [seed |-> g.seed, at |-> g.drawn]

advance(g) == [g EXCEPT !.drawn = @ + 1]

(***************************************************************************)
(* GraphComparator._build_graph_embeddings with GraphEmbedding.fit.  The   *)
(* vectors are random numbers; their cosine similarities are not modelled. *)
(***************************************************************************)
embedding_methods == <<"TransE", "DistMult", "ComplEx">>

EmbeddingLimit == 100

FirstN(seq, n) == SubSeq(seq, 1, IF Len(seq) < n THEN Len(seq) ELSE n)

\* GraphEmbedding.fit: the vocabularies, over the verbatim strings
fit(triples) ==
    [entity_to_id   |-> {triples[i].subject : i \in 1..Len(triples)}
                            \cup {triples[i].object : i \in 1..Len(triples)},
     relation_to_id |-> {triples[i].predicate : i \in 1..Len(triples)}]

\* the body of the try block for one variant, when nothing in it raises
embedding_entry(ta, tb) ==
    LET all_triples == ta \o tb
        embedding_model == fit(all_triples)
        embeddings_a == FirstN(ta, EmbeddingLimit)
        embeddings_b == FirstN(tb, EmbeddingLimit)
    IN  IF Len(ta) > 0 /\ Len(tb) > 0
        THEN IF Len(embeddings_a) > 0 /\ Len(embeddings_b) > 0
             THEN [entity_count   |-> Cardinality(embedding_model.entity_to_id),
                   relation_count |-> Cardinality(embedding_model.relation_to_id)]
             ELSE [error |-> "No embeddings generated"]
        ELSE [error |-> "Empty triple sets"]

_build_graph_embeddings(ta, tb) ==
    [m \in ToSet(embedding_methods) |-> embedding_entry(ta, tb)]

(***************************************************************************)
(* GraphComparator._calculate_graph_density.  A density is the exact       *)
(* fraction num/den; the reported fields are rounded hundredths.           *)
(***************************************************************************)
\* the ratio is computed without the test density_b > 0
_calculate_graph_density_unguarded(ta, tb, txa, txb) ==
    LET words_a == WordCount(txa)
        words_b == WordCount(txb)
        guard_a == words_a > 0
        guard_b == words_b > 0
        num_a == IF guard_a THEN Len(ta) ELSE 0
        den_a == IF guard_a THEN words_a ELSE 1
        num_b == IF guard_b THEN Len(tb) ELSE 0
        den_b == IF guard_b THEN words_b ELSE 1
    IN  IF (guard_a /\ words_a = 0) \/ (guard_b /\ words_b = 0) \/ num_b = 0
        THEN Exception("ZeroDivisionError")
        ELSE [source_a_density |-> RoundHalfEven(num_a * 100000, den_a),
              source_b_density |-> RoundHalfEven(num_b * 100000, den_b),
              density_delta |->
                  RoundHalfEven((num_a * den_b - num_b * den_a) * 100000, den_a * den_b),
              density_ratio |-> RoundHalfEven(num_a * den_b * 100, den_a * num_b)]

_calculate_graph_density(ta, tb, txa, txb) ==
    LET words_a == WordCount(txa)
        words_b == WordCount(txb)
        guard_a == words_a > 0
        guard_b == words_b > 0
        \* density_a = len(triples_a) / words_a if words_a > 0 else 0
        num_a == IF guard_a THEN Len(ta) ELSE 0
        den_a == IF guard_a THEN words_a ELSE 1
        num_b == IF guard_b THEN Len(tb) ELSE 0
        den_b == IF guard_b THEN words_b ELSE 1
        guard_ratio == num_b > 0            \* if density_b > 0
    IN  IF (guard_a /\ words_a = 0) \/ (guard_b /\ words_b = 0)
            \/ (guard_ratio /\ num_b = 0)
        THEN Exception("ZeroDivisionError")
        ELSE [source_a_density |-> RoundHalfEven(num_a * 100000, den_a),
              source_b_density |-> RoundHalfEven(num_b * 100000, den_b),
              density_delta |->
                  RoundHalfEven((num_a * den_b - num_b * den_a) * 100000, den_a * den_b),
              density_ratio |->
                  IF guard_ratio
                  THEN RoundHalfEven(num_a * den_b * 100, den_a * num_b)
                  ELSE 0]

(***************************************************************************)
(* GraphComparator._calculate_entity_coherence                             *)
(***************************************************************************)
ExamplesLimit == 5

RelationsShown == 3

\* list(S)[:n]: n elements of a set, in the set's arbitrary order
AnyN(S, n) ==
    IF Cardinality(S) <= n THEN S
    ELSE CHOOSE T \in SUBSET S : Cardinality(T) = n

\* the sum of the overlap ratios is not divided by their number
avg_overlap_sum(numerator, denominator, count) ==
    CondDiv(count > 0, numerator * 10000, denominator, 0)

\* round((sum(overlap_scores) / len(overlap_scores) if overlap_scores else 0) * 100, 2),
\* the sum being numerator / denominator
avg_overlap(numerator, denominator, count) ==
    CondDiv(count > 0, numerator * 10000, denominator * count, 0)

\* no common entity counts as no coherence
coherence_score_zero_default(consistent_count, common_count) ==
    CondDiv(common_count > 0, consistent_count * 10000, common_count, 0)

\* round((consistent_count / len(common_entities)
\*           if len(common_entities) > 0 else 1.0) * 100, 2)
coherence_score(consistent_count, common_count) ==
    CondDiv(common_count > 0, consistent_count * 10000, common_count, 10000)

_calculate_entity_coherence(ta, tb) ==
    LET entities_a == _extract_entities(ta)
        entities_b == _extract_entities(tb)
        common_entities == DOMAIN entities_a \cap DOMAIN entities_b
        overlap == [e \in common_entities |->
                        Cardinality(entities_a[e] \cap entities_b[e])]
        total   == [e \in common_entities |->
                        Cardinality(entities_a[e] \cup entities_b[e])]
        scored == {e \in common_entities : total[e] > 0}
        \* overlap_ratio > 0.3, and 0.1 < overlap_ratio <= 0.3
        consistent == {e \in scored : 10 * overlap[e] > 3 * total[e]}
        partially  == {e \in scored \ consistent : 10 * overlap[e] > total[e]}
        inconsistent == scored \ (consistent \cup partially)
        \* sum(overlap_scores) over the common denominator
        denominator == ProdFn(total, scored)
        numerator == SumFn([e \in scored |-> overlap[e] * (denominator \div total[e])],
                           scored)
        average == avg_overlap(numerator, denominator, Cardinality(scored))
        coherence == coherence_score(Cardinality(consistent),
                                     Cardinality(common_entities))
    IN  IF average.raises \/ coherence.raises
        THEN Exception("ZeroDivisionError")
        ELSE [common_entities |-> Cardinality(common_entities),
              consistent_entities |-> Cardinality(consistent),
              partially_consistent_entities |-> Cardinality(partially),
              coherence_score |-> coherence.value,
              average_overlap_ratio |-> average.value,
              inconsistent_examples |->
                  {[entity |-> e,
                    overlap_ratio |-> RoundHalfEven(overlap[e] * 10000, total[e]),
                    source_a_relations |-> AnyN(entities_a[e], RelationsShown),
                    source_b_relations |-> AnyN(entities_b[e], RelationsShown)] :
                        e \in AnyN(inconsistent, ExamplesLimit)}]

(***************************************************************************)
(* GraphComparator._analyze_provenance_chain                               *)
(***************************************************************************)
_triples_similar(t1, t2) ==
    /\ _normalize_text(t1.subject) = _normalize_text(t2.subject)
    /\ _normalize_text(t1.predicate) = _normalize_text(t2.predicate)
    /\ _normalize_text(t1.object) = _normalize_text(t2.object)

\* defaultdict(int) of extraction_method counts
MethodCounts(triples) ==
    [m \in {triples[i].extraction_method : i \in 1..Len(triples)} |->
        Cardinality({i \in 1..Len(triples) : triples[i].extraction_method = m})]

_analyze_provenance_chain(ta, tb) ==
    LET cited_triples_a == SelectSeq(ta, LAMBDA t : t.has_citation)
        cited_triples_b == SelectSeq(tb, LAMBDA t : t.has_citation)
        cited_a == Len(cited_triples_a)
        cited_b == Len(cited_triples_b)
        total_a == Len(ta)
        total_b == Len(tb)
        cited_overlap ==
            Cardinality({i \in 1..cited_a :
                \E j \in 1..cited_b :
                    _triples_similar(cited_triples_a[i], cited_triples_b[j])})
        quality_a == CondDiv(total_a > 0, cited_a * 10000, total_a, 0)
        quality_b == CondDiv(total_b > 0, cited_b * 10000, total_b, 0)
        unsourced_a == CondDiv(total_a > 0, (total_a - cited_a) * 10000, total_a, 0)
        unsourced_b == CondDiv(total_b > 0, (total_b - cited_b) * 10000, total_b, 0)
    IN  IF quality_a.raises \/ quality_b.raises \/ unsourced_a.raises \/ unsourced_b.raises
        THEN Exception("ZeroDivisionError")
        ELSE [source_a_cited |-> cited_a,
              source_a_cited_percentage |-> quality_a.value,
              source_b_cited |-> cited_b,
              source_b_cited_percentage |-> quality_b.value,
              citation_gap |-> Abs(cited_a - cited_b),
              cited_overlap |-> cited_overlap,
              provenance_quality_score_a |-> quality_a.value,
              provenance_quality_score_b |-> quality_b.value,
              extraction_methods_a |-> MethodCounts(ta),
              extraction_methods_b |-> MethodCounts(tb),
              unsourced_triples_a |-> total_a - cited_a,
              unsourced_triples_b |-> total_b - cited_b,
              unsourced_percentage_a |-> unsourced_a.value,
              unsourced_percentage_b |-> unsourced_b.value]

(***************************************************************************)
(* GraphComparator._is_noise_triple                                        *)
(***************************************************************************)
MediaRelatedTo == <<"m","e","d","i","a"," ","r","e","l","a","t","e","d"," ","t","o">>

WikimediaCommons == <<"w","i","k","i","m","e","d","i","a"," ","c","o","m","m","o","n","s">>

ExternalLinks == <<"e","x","t","e","r","n","a","l"," ","l","i","n","k","s">>

SeeAlso == <<"s","e","e"," ","a","l","s","o">>

ShortSentenceWords == 10

MinPredicateLen == 2

StopPredicates == {<<>>, <<" ">>, <<"a">>, <<"a","n">>, <<"t","h","e">>}

Media == <<"m","e","d","i","a">>

MetadataPredicates ==
    {Media, <<"c","a","t","e","g","o","r","y">>,
     <<"t","e","m","p","l","a","t","e">>, <<"f","i","l","e">>}

\* "see also" makes a triple noise whatever the length of its sentence
_is_noise_triple_any_length(triple) ==
    LET predicate == _normalize_text(triple.predicate)
        obj == _normalize_text(triple.object)
        sentence == Lower(triple.sentence)
    IN  \/ IsSubstring(MediaRelatedTo, sentence)
        \/ IsSubstring(WikimediaCommons, sentence) \/ IsSubstring(WikimediaCommons, obj)
        \/ predicate = Media
        \/ IsSubstring(ExternalLinks, sentence)
        \/ IsSubstring(SeeAlso, sentence)
        \/ Len(predicate) < MinPredicateLen
        \/ predicate \in StopPredicates
        \/ predicate \in MetadataPredicates

_is_noise_triple(triple) ==
    LET predicate == _normalize_text(triple.predicate)
        obj == _normalize_text(triple.object)
        sentence == Lower(triple.sentence)
    IN  \/ IsSubstring(MediaRelatedTo, sentence)
        \/ IsSubstring(WikimediaCommons, sentence) \/ IsSubstring(WikimediaCommons, obj)
        \/ predicate = Media
        \/ IsSubstring(ExternalLinks, sentence)
        \/ (IsSubstring(SeeAlso, sentence) /\ WordCount(sentence) < ShortSentenceWords)
        \/ Len(predicate) < MinPredicateLen
        \/ predicate \in StopPredicates
        \/ predicate \in MetadataPredicates

(***************************************************************************)
(* GraphComparator._detect_contradictions                                  *)
(***************************************************************************)
ContradictionKey(t) == <<_normalize_text(t.subject), _normalize_text(t.predicate)>>

\* the records appended while t_b is compared with index_a[key], in index order
\* both objects of a record are taken from the side-A triple
RECURSIVE ContradictionsOfSideA(_, _)
ContradictionsOfSideA(bucket, t_b) ==
    IF bucket = <<>> THEN <<>>
    ELSE LET t_a == Head(bucket)
             obj_a == _normalize_text(t_a.object)
             obj_b == _normalize_text(t_b.object)
             rest == ContradictionsOfSideA(Tail(bucket), t_b)
         IN  IF obj_a # obj_b /\ ~_are_compatible(obj_a, obj_b)
             THEN <<[subject |-> t_a.subject,
                     predicate |-> t_a.predicate,
                     source_a_object |-> t_a.object,
                     source_b_object |-> t_a.object]>> \o rest
             ELSE rest

RECURSIVE ContradictionsOf(_, _)
ContradictionsOf(bucket, t_b) ==
    IF bucket = <<>> THEN <<>>
    ELSE LET t_a == Head(bucket)
             obj_a == _normalize_text(t_a.object)
             obj_b == _normalize_text(t_b.object)
             rest == ContradictionsOf(Tail(bucket), t_b)
         IN  IF obj_a # obj_b /\ ~_are_compatible(obj_a, obj_b)
             THEN <<[subject |-> t_a.subject,
                     predicate |-> t_a.predicate,
                     source_a_object |-> t_a.object,
                     source_b_object |-> t_b.object]>> \o rest
             ELSE rest

RECURSIVE ContradictionsFromFirstMatch(_, _)
\* the inner loop stops at the first record of a side-B triple
ContradictionsFromFirstMatch(filtered_a, filtered_b) ==
    IF filtered_b = <<>> THEN <<>>
    ELSE LET t_b == Head(filtered_b)
             bucket == SelectSeq(filtered_a,
                                 LAMBDA t : ContradictionKey(t) = ContradictionKey(t_b))
         IN  FirstN(ContradictionsOf(bucket, t_b), 1)
                 \o ContradictionsFromFirstMatch(filtered_a, Tail(filtered_b))

RECURSIVE ContradictionsFrom(_, _)
ContradictionsFrom(filtered_a, filtered_b) ==
    IF filtered_b = <<>> THEN <<>>
    ELSE LET t_b == Head(filtered_b)
             \* index_a[key]: the side-A triples of that key, in list order
             bucket == SelectSeq(filtered_a,
                                 LAMBDA t : ContradictionKey(t) = ContradictionKey(t_b))
         IN  ContradictionsOf(bucket, t_b)
                 \o ContradictionsFrom(filtered_a, Tail(filtered_b))

\* the noise filter is applied to the indexed side only
_detect_contradictions_one_filter(ta, tb) ==
    LET filtered_triples_a == SelectSeq(ta, LAMBDA t : ~_is_noise_triple(t))
        filtered_triples_b == tb
        contradictions == ContradictionsFrom(filtered_triples_a, filtered_triples_b)
    IN  [contradiction_count |-> Len(contradictions),
         contradictions |-> contradictions,
         filtered_noise_triples_a |-> Len(ta) - Len(filtered_triples_a),
         filtered_noise_triples_b |-> Len(tb) - Len(filtered_triples_b)]

_detect_contradictions(ta, tb) ==
    LET filtered_triples_a == SelectSeq(ta, LAMBDA t : ~_is_noise_triple(t))
        filtered_triples_b == SelectSeq(tb, LAMBDA t : ~_is_noise_triple(t))
        contradictions == ContradictionsFrom(filtered_triples_a, filtered_triples_b)
    IN  [contradiction_count |-> Len(contradictions),
         contradictions |-> contradictions,
         filtered_noise_triples_a |-> Len(ta) - Len(filtered_triples_a),
         filtered_noise_triples_b |-> Len(tb) - Len(filtered_triples_b)]

(***************************************************************************)
(* GraphComparator.compare_graphs: the report, or the exception of the     *)
(* first facet that raises.                                                *)
(***************************************************************************)
compare_graphs(ta, tb, txa, txb, model, encode) ==
    LET graph_embeddings == _build_graph_embeddings(ta, tb)
        triple_overlap == _calculate_triple_overlap(ta, tb)
        semantic_similarity == _calculate_semantic_similarity(ta, tb, model, encode)
        graph_density == _calculate_graph_density(ta, tb, txa, txb)
        entity_coherence == _calculate_entity_coherence(ta, tb)
        provenance_analysis == _analyze_provenance_chain(ta, tb)
    IN  IF IsException(triple_overlap) THEN [status |-> "raised", exception |-> triple_overlap.error]
        ELSE IF IsException(semantic_similarity)
            THEN [status |-> "raised", exception |-> semantic_similarity.error]
        ELSE IF IsException(graph_density)
            THEN [status |-> "raised", exception |-> graph_density.error]
        ELSE IF IsException(entity_coherence)
            THEN [status |-> "raised", exception |-> entity_coherence.error]
        ELSE IF IsException(provenance_analysis)
            THEN [status |-> "raised", exception |-> provenance_analysis.error]
        ELSE [status |-> "returned",
              value |->
                [basic_stats |-> _get_basic_stats(ta, tb),
                 triple_overlap |-> triple_overlap,
                 semantic_similarity |-> semantic_similarity,
                 graph_embeddings |-> graph_embeddings,
                 graph_density |-> graph_density,
                 entity_coherence |-> entity_coherence,
                 provenance_analysis |-> provenance_analysis,
                 contradictions |-> _detect_contradictions(ta, tb)]]

(***************************************************************************)
(* Specification Spec: compare_graphs called on every pair of triple lists *)
(* of at most MaxTriples triples of Universe, with every pair of Texts,    *)
(* with and without a sentence model.                                      *)
(***************************************************************************)
NoFiles ==
    /\ grokipedia_file = [readable |-> FALSE]
    /\ wikipedia_file = [readable |-> FALSE]
    /\ report = [status |-> "none"]

\* no document parsed, no model loaded by a constructor of the model
NoDoc == [text |-> <<>>, tokens |-> <<>>, ents |-> <<>>]

NoLoads == [nlp |-> 0, sentence_model |-> 0]

NoCall ==
    /\ source = "unknown"
    /\ doc = NoDoc
    /\ loads = NoLoads

NoNormalize ==
    /\ text = <<>>
    /\ once = <<>>
    /\ twice = <<>>

\* The input lists: at most MaxTriples triples of Universe, repetitions
\* included, in one order per multiset (the order of Rank).  The facets read
\* their lists through sets, counts and pairs; the order of a list decides
\* only the order of the contradiction records.
Rank ==
    [t \in Universe |->
        CASE t = OxBeLab  -> 1
          [] t = oxBeLab  -> 2
          [] t = OxBeLabR -> 3
          [] t = OxBeCat  -> 4
          [] t = XaY      -> 5]

TripleLists ==
    {l \in BSeq(Universe, MaxTriples) :
        \A i \in 1..Len(l) : \A j \in i..Len(l) : Rank[l[i]] <= Rank[l[j]]}

Init ==
    /\ pc = "compare"
    /\ NoNormalize
    /\ triples_a \in TripleLists
    /\ triples_b \in TripleLists
    /\ text_a \in Texts
    /\ text_b \in Texts
    /\ sentence_model \in {"loaded", "none"}
    /\ random_state = IdleGenerator
    /\ scheduler = OneThread
    /\ NoCall
    /\ results = [status |-> "none"]
    /\ NoFiles

CompareGraphs ==
    /\ pc = "compare"
    /\ \E encode \in EncodeOutcomes :
          results' = compare_graphs(triples_a, triples_b, text_a, text_b,
                                    sentence_model, encode)
    /\ pc' = "compared"
    /\ UNCHANGED <<normVars, inputVars, envVars, callVars, fileVars, report>>

Next == CompareGraphs

Spec == Init /\ [][Next]_vars

Returned == pc = "compared" /\ results.status = "returned"

(***************************************************************************)
(* Properties of compare_graphs, under Spec                                *)
(***************************************************************************)
Report == results.value

NormKey(t) == <<_normalize_text(t.subject), _normalize_text(t.predicate)>>

NormObject(t) == _normalize_text(t.object)

\* one of the normalised objects is a substring of the other
ObjectsNested(a, b) ==
    IsSubstring(NormObject(a), NormObject(b)) \/ IsSubstring(NormObject(b), NormObject(a))

RecordOf(a, b) ==
    [subject |-> a.subject, predicate |-> a.predicate,
     source_a_object |-> a.object, source_b_object |-> b.object]

NonNoise(triples) == {i \in 1..Len(triples) : ~_is_noise_triple(triples[i])}

\* C1: for all triple lists the triple-overlap facet reports
\* exact_overlap_count <= fuzzy_overlap_count.
C1_ExactAtMostFuzzy ==
    Returned =>
        Report.triple_overlap.exact_overlap_count
            <= Report.triple_overlap.fuzzy_overlap_count

\* C2: when triples_a and triples_b are identical lists, compare_graphs reports
\* contradiction_count = 0 and exact_overlap_score = 100.
C2_IdenticalLists ==
    (Returned /\ triples_a = triples_b) =>
        /\ Report.contradictions.contradiction_count = 0
        /\ Report.triple_overlap.exact_overlap_score = 10000

\* C3: a side-A triple and a side-B triple with equal normalised subject and
\* predicate whose normalised objects are nested (one a substring of the other)
\* are never recorded as a contradiction.
C3_NestedObjectsNoContradiction ==
    Returned =>
        \A i \in 1..Len(triples_a) : \A j \in 1..Len(triples_b) :
            (/\ NormKey(triples_a[i]) = NormKey(triples_b[j])
             /\ ObjectsNested(triples_a[i], triples_b[j]))
            => \A k \in 1..Len(Report.contradictions.contradictions) :
                   Report.contradictions.contradictions[k]
                       # RecordOf(triples_a[i], triples_b[j])

\* a report for two non-noise triples of one key whose objects are nested and
\* differ, the longer object on side A
C3_Witness ==
    /\ Returned
    /\ \E i \in NonNoise(triples_a) : \E j \in NonNoise(triples_b) :
          /\ NormKey(triples_a[i]) = NormKey(triples_b[j])
          /\ NormObject(triples_a[i]) # NormObject(triples_b[j])
          /\ IsSubstring(NormObject(triples_b[j]), NormObject(triples_a[i]))

\* side A and side B hold one non-noise triple each, of the same key, with
\* objects that differ and are not nested
OneContradictingPair(i, j) ==
    /\ NonNoise(triples_a) = {i}
    /\ NonNoise(triples_b) = {j}
    /\ NormKey(triples_a[i]) = NormKey(triples_b[j])
    /\ NormObject(triples_a[i]) # NormObject(triples_b[j])
    /\ ~ObjectsNested(triples_a[i], triples_b[j])

\* C4: with exactly one non-noise triple per side, of the same normalised
\* subject and predicate and with incompatible objects, exactly one
\* contradiction is reported, and it carries A's object and B's object.
C4_OneContradiction ==
    Returned =>
        \A i \in 1..Len(triples_a) : \A j \in 1..Len(triples_b) :
            OneContradictingPair(i, j) =>
                /\ Report.contradictions.contradiction_count = 1
                /\ Report.contradictions.contradictions
                       = <<RecordOf(triples_a[i], triples_b[j])>>

\* such a pair has been compared, with a noise triple beside it on side A
C4_Witness ==
    /\ Returned
    /\ Len(triples_a) = 2
    /\ \E i \in 1..Len(triples_a) : \E j \in 1..Len(triples_b) :
          OneContradictingPair(i, j)

OneSideEmpty == triples_a = <<>> \/ triples_b = <<>>

\* the fields of the report that relate the two sides to each other
CrossFieldsZero ==
    /\ Report.triple_overlap.exact_overlap_count = 0
    /\ Report.triple_overlap.exact_overlap_score = 0
    /\ Report.triple_overlap.fuzzy_overlap_count = 0
    /\ Report.triple_overlap.fuzzy_overlap_score = 0
    /\ Report.semantic_similarity.average_similarity = 0
    /\ Report.semantic_similarity.similar_pairs_count = 0
    /\ \A m \in DOMAIN Report.graph_embeddings :
           DOMAIN Report.graph_embeddings[m] = {"error"}
    /\ Report.graph_density.density_ratio = 0
    /\ Report.entity_coherence.common_entities = 0
    /\ Report.entity_coherence.consistent_entities = 0
    /\ Report.entity_coherence.partially_consistent_entities = 0
    /\ Report.entity_coherence.average_overlap_ratio = 0
    /\ Report.entity_coherence.inconsistent_examples = {}
    /\ Report.provenance_analysis.cited_overlap = 0
    /\ Report.contradictions.contradiction_count = 0
    /\ Report.contradictions.contradictions = <<>>

\* the fields of the report that describe side A alone, and side B alone
SideAFieldsZero ==
    /\ Report.basic_stats.source_a_triples = 0
    /\ Report.triple_overlap.unique_to_source_a = 0
    /\ Report.graph_density.source_a_density = 0
    /\ Report.provenance_analysis.source_a_cited = 0
    /\ Report.provenance_analysis.source_a_cited_percentage = 0
    /\ Report.provenance_analysis.provenance_quality_score_a = 0
    /\ DOMAIN Report.provenance_analysis.extraction_methods_a = {}
    /\ Report.provenance_analysis.unsourced_triples_a = 0
    /\ Report.provenance_analysis.unsourced_percentage_a = 0
    /\ Report.contradictions.filtered_noise_triples_a = 0

SideBFieldsZero ==
    /\ Report.basic_stats.source_b_triples = 0
    /\ Report.triple_overlap.unique_to_source_b = 0
    /\ Report.graph_density.source_b_density = 0
    /\ Report.provenance_analysis.source_b_cited = 0
    /\ Report.provenance_analysis.source_b_cited_percentage = 0
    /\ Report.provenance_analysis.provenance_quality_score_b = 0
    /\ DOMAIN Report.provenance_analysis.extraction_methods_b = {}
    /\ Report.provenance_analysis.unsourced_triples_b = 0
    /\ Report.provenance_analysis.unsourced_percentage_b = 0
    /\ Report.contradictions.filtered_noise_triples_b = 0

\* the fields that combine the two sides' own counts
TotalsZero ==
    /\ Report.basic_stats.total_triples = 0
    /\ Report.graph_density.density_delta = 0
    /\ Report.provenance_analysis.citation_gap = 0

\* C5 as stated: with an empty triple list on either side compare_graphs does
\* not raise and every numeric field of every facet is 0, every list empty.
C5_EmptySideAllZero ==
    (pc = "compared" /\ OneSideEmpty) =>
        /\ results.status = "returned"
        /\ CrossFieldsZero
        /\ SideAFieldsZero
        /\ SideBFieldsZero
        /\ TotalsZero
        /\ Report.entity_coherence.coherence_score = 0

\* C5 as amended: with an empty triple list on either side compare_graphs does
\* not raise; every field that relates the two sides is 0 or empty and every
\* embedding variant is an error entry, except coherence_score, which is 100;
\* the fields of an empty side are 0, those of a non-empty side keep its
\* counts; with both sides empty every numeric field but coherence_score is 0.
C5_EmptySideReport ==
    (pc = "compared" /\ OneSideEmpty) =>
        /\ results.status = "returned"
        /\ CrossFieldsZero
        /\ Report.entity_coherence.coherence_score = 10000
        /\ triples_a = <<>> => SideAFieldsZero
        /\ triples_b = <<>> => SideBFieldsZero
        /\ (triples_a = <<>> /\ triples_b = <<>>) => TotalsZero
        /\ Report.basic_stats.source_a_triples = Len(triples_a)
        /\ Report.basic_stats.source_b_triples = Len(triples_b)

\* an empty side A has been compared with two triples on side B, in a text
\* that has words
C5_Witness ==
    /\ Returned
    /\ triples_a = <<>>
    /\ Len(triples_b) = 2
    /\ WordCount(text_b) > 0

CommonSubjects ==
    {_normalize_text(triples_a[i].subject) : i \in 1..Len(triples_a)}
        \cap {_normalize_text(triples_b[j].subject) : j \in 1..Len(triples_b)}

\* C6: when the two sources have no subject in common after normalisation the
\* entity-coherence facet reports common_entities = 0 and coherence_score = 100.
C6_NoCommonEntityCoherent ==
    (Returned /\ CommonSubjects = {}) =>
        /\ Report.entity_coherence.common_entities = 0
        /\ Report.entity_coherence.coherence_score = 10000

\* two non-empty sides without a common subject have been compared
C6_Witness ==
    /\ Returned
    /\ triples_a # <<>>
    /\ triples_b # <<>>
    /\ CommonSubjects = {}

\* C7: a text of zero words gives density 0 for its side and no division by
\* zero; density_ratio is 0 whenever side B's density is 0 (no triple on side
\* B, or no word in text B).
C7_ZeroWordsZeroDensity ==
    pc = "compared" =>
        /\ results.status = "raised" => results.exception # "ZeroDivisionError"
        /\ results.status = "returned" =>
              /\ WordCount(text_a) = 0 => Report.graph_density.source_a_density = 0
              /\ WordCount(text_b) = 0 => Report.graph_density.source_b_density = 0
              /\ (WordCount(text_b) = 0 \/ triples_b = <<>>) =>
                     Report.graph_density.density_ratio = 0

\* both sides hold triples, text A has words and text B has none
C7_Witness ==
    /\ Returned
    /\ triples_a # <<>>
    /\ triples_b # <<>>
    /\ WordCount(text_a) > 0
    /\ WordCount(text_b) = 0

InPercentRange(x) == 0 <= x /\ x <= 10000

\* C8: exact_overlap_score, fuzzy_overlap_score, coherence_score and
\* average_overlap_ratio are each within [0, 100].
C8_ScoresInRange ==
    Returned =>
        /\ InPercentRange(Report.triple_overlap.exact_overlap_score)
        /\ InPercentRange(Report.triple_overlap.fuzzy_overlap_score)
        /\ InPercentRange(Report.entity_coherence.coherence_score)
        /\ InPercentRange(Report.entity_coherence.average_overlap_ratio)

\* two common entities, both with fully overlapping relations, and an exact
\* overlap of the whole of both sides
C8_Witness ==
    /\ Returned
    /\ Report.entity_coherence.common_entities = 2
    /\ Report.entity_coherence.average_overlap_ratio = 10000
    /\ Report.triple_overlap.exact_overlap_score = 10000

(***************************************************************************)
(* KnowledgeGraphAnalyzer.  A file is readable with a content, or not      *)
(* readable.  In a content the one character Marker stands for the marker  *)
(* string "Full Content:" of the fetcher's header.                         *)
(***************************************************************************)
Marker == "M"

\* the positions where re.search(r'<marker>\s*(.+)', content, re.DOTALL) can
\* match: a marker with at least one character after it
MarkerMatches(content) == {i \in 1..(Len(content) - 1) : content[i] = Marker}

\* _read_file on the content read from a readable file
_read_file(content) ==
    IF MarkerMatches(content) # {}
    THEN LET first == CHOOSE i \in MarkerMatches(content) :
                          \A j \in MarkerMatches(content) : i <= j
         IN  Strip(SubSeq(content, first + 1, Len(content)))
    ELSE content

FileContents ==
    {<<"h", " ", Marker, " ", "a", "\t", "b">>,   \* header, marker, two words
     <<"h", Marker, " ">>,                        \* nothing but blank after the marker
     <<"a", " ", "b">>}                           \* no marker

Files == {[readable |-> TRUE, content |-> c] : c \in FileContents}
            \cup {[readable |-> FALSE]}

MaxExtract == 1

\* extract_triples: what the parser and the four strategies find in a text is
\* outside the model; a text without a word yields no triple, any other text
\* any list of at most MaxExtract triples
extract_triples(content) ==
    IF WordCount(content) = 0 THEN {<<>>}
    ELSE {l \in TripleLists : Len(l) <= MaxExtract}

SampleSize == 20

\* the dict analyze_files returns
analyze_files_report(grok_triples, wiki_triples, comparison) ==
    [grokipedia_triples |-> FirstN(grok_triples, SampleSize),
     wikipedia_triples |-> FirstN(wiki_triples, SampleSize),
     comparison |-> comparison,
     metadata |-> [grokipedia_file |-> "grokipedia_file",
                   wikipedia_file |-> "wikipedia_file",
                   total_grokipedia_triples |-> Len(grok_triples),
                   total_wikipedia_triples |-> Len(wiki_triples)]]

(***************************************************************************)
(* Specification SpecAnalyze: analyze_files on every pair of Files.        *)
(***************************************************************************)
InitAnalyze ==
    /\ pc = "read"
    /\ NoNormalize
    /\ triples_a = <<>>
    /\ triples_b = <<>>
    /\ text_a = <<>>
    /\ text_b = <<>>
    /\ sentence_model \in {"loaded", "none"}
    /\ random_state = IdleGenerator
    /\ scheduler = OneThread
    /\ NoCall
    /\ results = [status |-> "none"]
    /\ grokipedia_file \in Files
    /\ wikipedia_file \in Files
    /\ report = [status |-> "none"]

\* the second file is read inside a handler that substitutes an empty content
ReadFilesSecondOptional ==
    /\ pc = "read"
    /\ IF grokipedia_file.readable
       THEN /\ text_a' = _read_file(grokipedia_file.content)
            /\ text_b' = IF wikipedia_file.readable
                         THEN _read_file(wikipedia_file.content)
                         ELSE <<>>
            /\ pc' = "extract_grokipedia"
            /\ UNCHANGED report
       ELSE /\ report' = [status |-> "raised", exception |-> "OSError"]
            /\ pc' = "done"
            /\ UNCHANGED <<text_a, text_b>>
    /\ UNCHANGED <<normVars, triples_a, triples_b, envVars, callVars, results, fileVars>>

\* grok_content = self._read_file(...); wiki_content = self._read_file(...):
\* open() raises on a file that cannot be read
ReadFiles ==
    /\ pc = "read"
    /\ IF grokipedia_file.readable /\ wikipedia_file.readable
       THEN /\ text_a' = _read_file(grokipedia_file.content)
            /\ text_b' = _read_file(wikipedia_file.content)
            /\ pc' = "extract_grokipedia"
            /\ UNCHANGED report
       ELSE /\ report' = [status |-> "raised", exception |-> "OSError"]
            /\ pc' = "done"
            /\ UNCHANGED <<text_a, text_b>>
    /\ UNCHANGED <<normVars, triples_a, triples_b, envVars, callVars, results, fileVars>>

ExtractGrokipedia ==
    /\ pc = "extract_grokipedia"
    /\ triples_a' \in extract_triples(text_a)
    /\ pc' = "extract_wikipedia"
    /\ UNCHANGED <<normVars, triples_b, text_a, text_b, envVars, callVars, results,
                   fileVars, report>>

ExtractWikipedia ==
    /\ pc = "extract_wikipedia"
    /\ triples_b' \in extract_triples(text_b)
    /\ pc' = "compare"
    /\ UNCHANGED <<normVars, triples_a, text_a, text_b, envVars, callVars, results,
                   fileVars, report>>

\* the return statement of analyze_files, or the exception of compare_graphs
\* passing through it
ReturnReport ==
    /\ pc = "compared"
    /\ report' = IF results.status = "raised"
                 THEN [status |-> "raised", exception |-> results.exception]
                 ELSE [status |-> "returned",
                       value |-> analyze_files_report(triples_a, triples_b,
                                                      results.value)]
    /\ pc' = "done"
    /\ UNCHANGED <<normVars, inputVars, envVars, callVars, results, fileVars>>

NextAnalyze ==
    \/ ReadFiles
    \/ ExtractGrokipedia
    \/ ExtractWikipedia
    \/ CompareGraphs
    \/ ReturnReport

SpecAnalyze == InitAnalyze /\ [][NextAnalyze]_vars

FacetKeys ==
    {"basic_stats", "triple_overlap", "semantic_similarity", "graph_embeddings",
     "graph_density", "entity_coherence", "provenance_analysis", "contradictions"}

\* C10: for every pair of readable input files analyze_files returns a report
\* whose comparison mapping has exactly the keys basic_stats, triple_overlap,
\* semantic_similarity, graph_embeddings, graph_density, entity_coherence,
\* provenance_analysis and contradictions.
C10_ReportHasFacets ==
    (pc = "done" /\ grokipedia_file.readable /\ wikipedia_file.readable) =>
        /\ report.status = "returned"
        /\ DOMAIN report.value.comparison = FacetKeys

(***************************************************************************)
(* Specification SpecNorm: _normalize_text applied once and twice to every *)
(* string of at most MaxLen characters over NormChars.                     *)
(***************************************************************************)
NormChars == {"a", "A", " ", "\t"}

NoCompare ==
    /\ triples_a = <<>>
    /\ triples_b = <<>>
    /\ text_a = <<>>
    /\ text_b = <<>>
    /\ sentence_model = "none"
    /\ random_state = IdleGenerator
    /\ scheduler = OneThread
    /\ NoCall
    /\ results = [status |-> "none"]
    /\ NoFiles

InitNorm ==
    /\ pc = "normalize"
    /\ text \in BSeq(NormChars, MaxLen)
    /\ once = <<>>
    /\ twice = <<>>
    /\ NoCompare

Normalize ==
    /\ pc = "normalize"
    /\ once' = _normalize_text(text)
    /\ pc' = "renormalize"
    /\ UNCHANGED <<text, twice, inputVars, envVars, callVars, results, fileVars, report>>

Renormalize ==
    /\ pc = "renormalize"
    /\ twice' = _normalize_text(once)
    /\ pc' = "normalized"
    /\ UNCHANGED <<text, once, inputVars, envVars, callVars, results, fileVars, report>>

NextNorm == Normalize \/ Renormalize

SpecNorm == InitNorm /\ [][NextNorm]_vars

\* C9: text normalisation is idempotent: normalising an already normalised
\* string returns it unchanged, for every string.
C9_NormalizeIdempotent == pc = "normalized" => twice = once

\* a string with an inner whitespace run of three characters and upper case
\* has been normalised twice
C9_Witness ==
    /\ pc = "normalized"
    /\ \E i \in 1..(Len(text) - 2) :
          IsSpace(text[i]) /\ IsSpace(text[i + 1]) /\ IsSpace(text[i + 2])
    /\ ~IsSpace(text[1]) /\ ~IsSpace(text[Len(text)])
    /\ once # text

(***************************************************************************)
(* TripleExtractor._has_citation.  The regular expressions are matched as  *)
(* re.search matches them; every pattern of the list is a concatenation of *)
(* character classes that exclude one another, so the greedy match is the  *)
(* only one.                                                               *)
(***************************************************************************)
IsDigit(c) == c \in {"0", "1", "2", "3", "4", "5", "6", "7", "8", "9"}

\* the regex class \w: letters, digits, underscore
IsWord(c) == c \in LowerLetters \cup UpperLetters \/ IsDigit(c) \/ c = "_"

\* the character at position i (counted from 1) is c
At(s, i, c) == i >= 1 /\ i <= Len(s) /\ s[i] = c

\* s[a:b], positions counted from 0, clamped as Python clamps them
Slice(s, a, b) == SubSeq(s, a + 1, IF b < Len(s) THEN b ELSE Len(s))

\* the first position from i on that holds no digit (\d+ and \d* end there)
RECURSIVE SkipDigits(_, _)
SkipDigits(s, i) == IF i <= Len(s) /\ IsDigit(s[i]) THEN SkipDigits(s, i + 1) ELSE i

\* the same for \s
RECURSIVE SkipSpaces(_, _)
SkipSpaces(s, i) == IF i <= Len(s) /\ IsSpace(s[i]) THEN SkipSpaces(s, i + 1) ELSE i

\* the same for [a-z]
RECURSIVE SkipLower(_, _)
SkipLower(s, i) == IF i <= Len(s) /\ s[i] \in LowerLetters THEN SkipLower(s, i + 1) ELSE i

\* s.find(sub): the first position (from 0) where sub occurs, -1 if none
find(s, sub) ==
    IF IsSubstring(sub, s)
    THEN CHOOSE i \in 0..(Len(s) - Len(sub)) :
            /\ SubSeq(s, i + 1, i + Len(sub)) = sub
            /\ \A j \in 0..(i - 1) : SubSeq(s, j + 1, j + Len(sub)) # sub
    ELSE -1

\* r'\d{4}' at position i
FourDigitsAt(s, i) == i + 3 <= Len(s) /\ \A k \in i..(i + 3) : IsDigit(s[k])

\* the patterns of citation_patterns that are no literal strings
citation_regex_found(s) ==
    \E i \in 1..Len(s) :
        \/ /\ s[i] = "["
           /\ LET c == SkipDigits(s, i + 1)
                  d == SkipSpaces(s, c + 1)
                  j == SkipDigits(s, d)
                  k == SkipDigits(s, c + 1)
              IN  /\ c > i + 1
                  /\ \/ At(s, c, "]")                               \* r'\[\d+\]'
                     \/ At(s, c, ",") /\ j > d /\ At(s, j, "]")      \* r'\[\d+,\s*\d+\]'
                     \/ At(s, c, "-") /\ k > c + 1 /\ At(s, k, "]")  \* r'\[\d+-\d+\]'
        \/ /\ s[i] = "(" /\ FourDigitsAt(s, i + 1)
           /\ \/ At(s, i + 5, ")")                                  \* r'\(\d{4}\)'
              \/ /\ i + 5 <= Len(s)                                 \* r'\(\d{4}[a-z]\)'
                 /\ s[i + 5] \in LowerLetters \cup UpperLetters    \* with re.IGNORECASE
                 /\ At(s, i + 6, ")")

\* the patterns of citation_patterns that are literal strings
citation_literals ==
    {<<"e","t"," ","a","l",".">>,
     <<"[","c","i","t","a","t","i","o","n"," ","n","e","e","d","e","d","]">>,
     <<"[","w","h","o","]">>,
     <<"[","w","h","e","n","]">>,
     <<"[","w","h","e","r","e","]">>,
     <<"[","c","l","a","r","i","f","i","c","a","t","i","o","n"," ","n","e","e","d","e","d","]">>,
     <<"r","e","f",".">>,
     <<"r","e","f","e","r","e","n","c","e">>,
     <<"s","e","e"," ","a","l","s","o">>,
     <<"c","f",".">>,
     <<"a","c","c","o","r","d","i","n","g"," ","t","o">>,
     <<"a","s"," ","c","i","t","e","d"," ","i","n">>,
     <<"p","e","r">>}

citation_phrases ==
    <<<<"a","c","c","o","r","d","i","n","g"," ","t","o">>,
      <<"a","s"," ","s","t","a","t","e","d"," ","i","n">>,
      <<"a","s"," ","r","e","p","o","r","t","e","d"," ","b","y">>,
      <<"r","e","s","e","a","r","c","h"," ","s","h","o","w","s">>,
      <<"s","t","u","d","i","e","s"," ","i","n","d","i","c","a","t","e">>,
      <<"f","i","n","d","i","n","g","s"," ","s","u","g","g","e","s","t">>,
      <<"d","a","t","a"," ","f","r","o","m">>>>

\* how many characters from the start of a phrase are searched
FollowingChars == 50

\* r'\b[A-Z][a-z]+\s+et\s+al', case-sensitive
NameEtAl(s) ==
    \E i \in 1..Len(s) :
        /\ s[i] \in UpperLetters
        /\ i = 1 \/ ~IsWord(s[i - 1])
        /\ LET j == SkipLower(s, i + 1)
               k == SkipSpaces(s, j)
               m == SkipSpaces(s, k + 2)
           IN  /\ j > i + 1
               /\ k > j /\ At(s, k, "e") /\ At(s, k + 1, "t")
               /\ m > k + 2 /\ At(s, m, "a") /\ At(s, m + 1, "l")

\* re.search(r'\d{4}|\b[A-Z][a-z]+\s+et\s+al|\[|\(', following_text)
source_indicator(following_text) ==
    \/ \E i \in 1..Len(following_text) : FourDigitsAt(following_text, i)
    \/ NameEtAl(following_text)
    \/ \E i \in 1..Len(following_text) : following_text[i] \in {"[", "("}

\* any(re.search(pattern, text_lower, re.IGNORECASE) for pattern in citation_patterns)
citation_pattern_found(text_lower) ==
    \/ citation_regex_found(text_lower)
    \/ \E pattern \in citation_literals : IsSubstring(pattern, text_lower)

_has_citation(sentence) ==
    LET text_lower == Lower(sentence)
    IN  IF citation_pattern_found(text_lower) THEN TRUE
        ELSE \E n \in 1..Len(citation_phrases) :
                LET phrase == citation_phrases[n]
                    phrase_pos == find(text_lower, phrase)
                    following_text ==
                        Slice(text_lower, phrase_pos, phrase_pos + FollowingChars)
                IN  IsSubstring(phrase, text_lower) /\ source_indicator(following_text)

(***************************************************************************)
(* The parsed text.  A spaCy Doc is its text, its tokens (text, lemma_,    *)
(* is_stop, whitespace_, the number of the sentence that holds it) and its *)
(* named entities (start and end token positions counted from 0, end       *)
(* excluded, label_).  Tokenisation, sentence splitting and entity         *)
(* recognition are spaCy's and outside the model: the documents are        *)
(* enumerated with their parse.                                            *)
(***************************************************************************)
Token(t, lemma, stop, ws, sent) ==
    [text |-> t, lemma_ |-> lemma, is_stop |-> stop, whitespace_ |-> ws, sent |-> sent]

\* doc[a:b]
Span(d, a, b) == [k \in 1..(b - a) |-> d.tokens[a + k]]

\* Span.text: the tokens with the whitespace that follows each, the last one without
RECURSIVE SpanText(_)
SpanText(tokens) ==
    IF tokens = <<>> THEN <<>>
    ELSE IF Len(tokens) = 1 THEN tokens[1].text
    ELSE tokens[1].text \o tokens[1].whitespace_ \o SpanText(Tail(tokens))

\* sep.join(strings)
RECURSIVE Join(_, _)
Join(sep, strings) ==
    IF strings = <<>> THEN <<>>
    ELSE IF Len(strings) = 1 THEN strings[1]
    ELSE strings[1] \o sep \o Join(sep, Tail(strings))

\* [sent.text for sent in doc.sents]
Sentences(d) ==
    LET count == IF d.tokens = <<>> THEN 0 ELSE d.tokens[Len(d.tokens)].sent
        Sent(n) == LET Within(t) == t.sent = n IN SelectSeq(d.tokens, Within)
    IN  [n \in 1..count |-> SpanText(Sent(n))]

\* the words of the enumerated documents: text, lemma_, is_stop
Word(w) ==
    CASE w = "Ox" -> [text |-> <<"O","x">>, lemma_ |-> <<"O","x">>, is_stop |-> FALSE]
      [] w = "Cat" -> [text |-> <<"C","a","t">>, lemma_ |-> <<"C","a","t">>, is_stop |-> FALSE]
      [] w = "Lab" -> [text |-> <<"L","a","b">>, lemma_ |-> <<"L","a","b">>, is_stop |-> FALSE]
      [] w = "of" -> [text |-> <<"o","f">>, lemma_ |-> <<"o","f">>, is_stop |-> TRUE]
      [] w = "met" -> [text |-> <<"m","e","t">>, lemma_ |-> <<"m","e","e","t">>, is_stop |-> FALSE]
      [] OTHER -> [text |-> <<w>>, lemma_ |-> <<w>>, is_stop |-> FALSE]

\* words as spaCy tokens: no whitespace before a period or a closing bracket
\* nor after an opening one; a period ends its sentence
Tokens(words) ==
    [i \in 1..Len(words) |->
        Token(words[i].text, words[i].lemma_, words[i].is_stop,
              IF \/ i = Len(words)
                 \/ words[i] = Word("[")
                 \/ words[i] = Word("1")
                 \/ words[i + 1] = Word(".")
              THEN <<>> ELSE <<" ">>,
              1 + Cardinality({j \in 1..(i - 1) : words[j] = Word(".")}))]

\* what stands between the first two entities, and how many tokens it needs
GapLeast == [stop |-> 0, word |-> 1, period |-> 1, word_period |-> 2, cited |-> 3]

Gap(n, kind) ==
    LET Stops(k) == [i \in 1..k |-> Word("of")]
    IN  CASE kind = "stop" -> Stops(n)
          [] kind = "word" -> <<Word("met")>> \o Stops(n - 1)
          [] kind = "period" -> Stops(n - 1) \o <<Word(".")>>
          [] kind = "word_period" -> <<Word("met")>> \o Stops(n - 2) \o <<Word(".")>>
          [] kind = "cited" -> <<Word("["), Word("1"), Word("]")>> \o Stops(n - 3)

\* two entities with n tokens between them, and possibly a third
EntityDoc(n, kind, third) ==
    LET words == <<Word("Ox")>> \o Gap(n, kind) \o <<Word("Cat")>>
                    \o (IF third THEN <<Word("met"), Word("Lab")>> ELSE <<>>)
        Ent(start, end, label) == [start |-> start, end |-> end, label_ |-> label]
    IN  [text |-> SpanText(Tokens(words)),
         tokens |-> Tokens(words),
         ents |-> <<Ent(0, 1, "PERSON"), Ent(n + 1, n + 2, "PERSON")>>
                     \o (IF third THEN <<Ent(n + 3, n + 4, "ORG")>> ELSE <<>>)]

EntityDocs ==
    {EntityDoc(p[1], p[2], p[3]) :
        p \in {c \in (0..MaxGap) \X (DOMAIN GapLeast) \X BOOLEAN : c[1] >= GapLeast[c[2]]}}

\* the tokens of a text without punctuation: its words, each followed by
\* the one space spaCy attaches to it, and its other whitespace runs
RECURSIVE Tokenize(_)
Tokenize(s) ==
    IF s = <<>> THEN <<>>
    ELSE LET space == IsSpace(s[1])
             n == CHOOSE k \in 1..Len(s) :
                     /\ \A i \in 1..k : IsSpace(s[i]) = space
                     /\ k = Len(s) \/ IsSpace(s[k + 1]) # space
             run == SubSeq(s, 1, n)
             ws == IF ~space /\ At(s, n + 1, " ") THEN <<" ">> ELSE <<>>
         IN  <<Token(run, run, FALSE, ws, 1)>>
                 \o Tokenize(SubSeq(s, n + 1 + Len(ws), Len(s)))

\* self.nlp(t)
Parse(t) ==
    IF \E d \in EntityDocs : d.text = t
    THEN CHOOSE d \in EntityDocs : d.text = t
    ELSE [text |-> t, tokens |-> Tokenize(t), ents |-> <<>>]

(***************************************************************************)
(* TripleExtractor._extract_entity_relations                               *)
(***************************************************************************)
\* the dict of one extracted triple: the fields the comparator reads and
\* the source tag of the call
Extracted(s, p, o, sent, cit, meth, src) ==
    [subject |-> s, predicate |-> p, object |-> o, sentence |-> sent,
     has_citation |-> cit, extraction_method |-> meth, source |-> src]

\* triples.extend(more), and its variant that skips a statement already listed
extend_new(triples, more) ==
    LET Stated(t, l) ==
            \E i \in 1..Len(l) :
                /\ l[i].subject = t.subject
                /\ l[i].predicate = t.predicate
                /\ l[i].object = t.object
        New(t) == ~Stated(t, triples)
    IN  triples \o SelectSeq(more, New)

extend(triples, more) == triples \o more

\* the pairs (i, j), i < j, in the order of the two loops
RECURSIVE EntityPairs(_, _, _)
EntityPairs(i, j, n) ==
    IF i >= n THEN <<>>
    ELSE IF j > n THEN EntityPairs(i + 1, i + 2, n)
    ELSE <<<<i, j>>>> \o EntityPairs(i, j + 1, n)

\* " ".join([t.lemma_ for t in between_tokens if not t.is_stop])
relation_between(between_tokens) ==
    LET NotStop(t) == ~t.is_stop
        kept == SelectSeq(between_tokens, NotStop)
    IN  Join(<<" ">>, [k \in 1..Len(kept) |-> kept[k].lemma_])

BetweenLimit == 10

_extract_entity_relations(d, src) ==
    LET entities == d.ents
        between_tokens(p) == Span(d, entities[p[1]].end, entities[p[2]].start)
        Emits(p) ==
            /\ entities[p[2]].start > entities[p[1]].end
            /\ Len(between_tokens(p)) > 0
            /\ Len(between_tokens(p)) < BetweenLimit
            /\ relation_between(between_tokens(p)) # <<>>
        emitting == SelectSeq(EntityPairs(1, 2, Len(entities)), Emits)
    IN  [k \in 1..Len(emitting) |->
            LET ent1 == entities[emitting[k][1]]
                ent2 == entities[emitting[k][2]]
            IN  [subject |-> SpanText(Span(d, ent1.start, ent1.end)),
                 predicate |-> relation_between(between_tokens(emitting[k])),
                 object |-> SpanText(Span(d, ent2.start, ent2.end)),
                 source |-> src,
                 subject_type |-> ent1.label_,
                 object_type |-> ent2.label_,
                 sentence |-> SpanText(Span(d, ent1.start, ent2.end)),
                 has_citation |-> FALSE,
                 extraction_method |-> "entity_relation"]]

(***************************************************************************)
(* Specification SpecExtract: TripleExtractor.extract_triples, one step    *)
(* per statement that can fail.  text_a and source are the arguments,      *)
(* triples_a the local list triples, results the other locals and then     *)
(* what the call returned or raised.  The entity strategy is computed on   *)
(* the parse.  What the dependency parse and the regular expressions of    *)
(* the three other strategies find is outside the model: such a strategy   *)
(* finds at most MaxExtract times the statement (first word, be, last      *)
(* word), each time in one sentence of the document, and builds its dict   *)
(* as the code does; or its library call raises.                           *)
(***************************************************************************)
TextLimit == 1000000

ExtractTexts == Texts \cup {_read_file(c) : c \in FileContents}

Sources == {"unknown", "grokipedia", "wikipedia"}

StrategyOutcomes == {"found", "raise"}

\* the lists one of the sentence-wise strategies can build from a parse
Found(d, method, src) ==
    LET words == LET IsWordToken(t) == ~IsSpace(t.text[1]) IN SelectSeq(d.tokens, IsWordToken)
        sents == Sentences(d)
        dicts == {Extracted(words[1].text, <<"b", "e">>, words[Len(words)].text,
                            sents[n], _has_citation(sents[n]), method, src) :
                     n \in 1..Len(sents)}
    IN  IF Len(words) < 2 THEN {<<>>} ELSE BSeq(dicts, MaxExtract)

InitExtract ==
    /\ pc = "nlp"
    /\ NoNormalize
    /\ triples_a = <<>>
    /\ triples_b = <<>>
    /\ text_a \in ExtractTexts \cup {d.text : d \in EntityDocs}
    /\ text_b = <<>>
    /\ sentence_model \in {"loaded", "none"}
    /\ random_state = IdleGenerator
    /\ scheduler = OneThread
    /\ source \in Sources
    /\ doc = NoDoc
    /\ loads = NoLoads
    /\ results = [status |-> "none"]
    /\ NoFiles

\* one strategy of extract_triples: its triples are appended, or its
\* exception leaves extract_triples, which has no handler
Strategy(at, method, then, outputs, local) ==
    /\ pc = at
    /\ \E outcome \in StrategyOutcomes :
          IF outcome = "raise"
          THEN /\ results' = [status |-> "raised", exception |-> method]
               /\ pc' = "extracted"
               /\ UNCHANGED triples_a
          ELSE /\ \E found \in outputs :
                     /\ triples_a' = extend(triples_a, found)
                     /\ results' = IF local = "triples" THEN results
                                   ELSE [results EXCEPT ![local] = found]
               /\ pc' = then
    /\ UNCHANGED <<normVars, triples_b, text_a, text_b, envVars, callVars,
                   fileVars, report>>

\* doc = self.nlp(text[:1000000]); triples = []
Nlp ==
    /\ pc = "nlp"
    /\ \E outcome \in StrategyOutcomes :
          IF outcome = "raise"
          THEN /\ results' = [status |-> "raised", exception |-> "nlp"]
               /\ pc' = "extracted"
               /\ UNCHANGED doc
          ELSE /\ doc' = Parse(FirstN(text_a, TextLimit))
               /\ results' = [status |-> "running", openie_triples |-> <<>>,
                              entity_triples |-> <<>>, nominal_triples |-> <<>>]
               /\ pc' = "dependency_parsing"
    /\ triples_a' = <<>>
    /\ UNCHANGED <<normVars, triples_b, text_a, text_b, envVars, source, loads,
                   fileVars, report>>

DependencyParsing ==
    Strategy("dependency_parsing", "dependency_parsing", "openie_pattern",
             Found(doc, "dependency_parsing", source), "triples")

OpenIEPatterns ==
    Strategy("openie_pattern", "openie_pattern", "entity_relation",
             Found(doc, "openie_pattern", source), "openie_triples")

EntityRelations ==
    Strategy("entity_relation", "entity_relation", "nominal_relation",
             {_extract_entity_relations(doc, source)}, "entity_triples")

NominalRelations ==
    Strategy("nominal_relation", "nominal_relation", "return",
             Found(doc, "nominal_relation", source), "nominal_triples")

\* return triples
ReturnTriples ==
    /\ pc = "return"
    /\ results' = [status |-> "returned", value |-> triples_a]
    /\ pc' = "extracted"
    /\ UNCHANGED <<normVars, inputVars, envVars, callVars, fileVars, report>>

NextExtract ==
    \/ Nlp
    \/ DependencyParsing
    \/ OpenIEPatterns
    \/ EntityRelations
    \/ NominalRelations
    \/ ReturnTriples

SpecExtract == InitExtract /\ [][NextExtract]_vars

\* C11: extract_triples never raises: a failure while one sentence or one
\* pattern is processed is caught and skipped, and the call returns the
\* triples that the other sentences and strategies extracted.
C11_ExtractNeverRaises ==
    pc = "extracted" =>
        /\ results.status = "returned"
        /\ results.value = triples_a

(***************************************************************************)
(* Failure of the embedding backend, under Spec                            *)
(***************************************************************************)
BackendExceptions == {"sentence_model.encode", "ValueError: empty vocabulary"}

\* the frequency-based fallback is used and no triple sentence has a token
TfidfCannotBuildVocabulary ==
    /\ sentence_model = "none"
    /\ Len(triples_a) > 0
    /\ Len(triples_b) > 0
    /\ \A t \in ToSet(triples_a) \cup ToSet(triples_b) : ~HasToken(_triple_to_sentence(t))

\* C12: when the embedding backend fails while semantic_similarity is
\* computed (the sentence encoder raises, or the frequency-based fallback
\* cannot build a vocabulary), compare_graphs still returns a report with
\* every facet: no backend exception leaves compare_graphs.
C12_BackendFailureDegrades ==
    pc = "compared" =>
        /\ ~(results.status = "raised" /\ results.exception \in BackendExceptions)
        /\ TfidfCannotBuildVocabulary =>
               (results.status = "returned" /\ DOMAIN results.value = FacetKeys)

(***************************************************************************)
(* Specification SpecEmbed: the loop of _build_graph_embeddings, one step  *)
(* per variant.  pc is the variant the loop is at, results.value the local *)
(* dict results.  The numeric library is outside the program: the try      *)
(* block of a variant runs to its end or one of its calls raises.          *)
(***************************************************************************)
VariantOutcomes == {"computed", "raise"}

\* except Exception as e: results[method] = {"error": str(e)}, without a
\* handler: the exception leaves the loop
record_exception_unhandled(res, method, e) == [status |-> "raised", exception |-> e]

\* except Exception as e: results[method] = {"error": str(e)}
record_exception(res, method, e) ==
    [res EXCEPT !.value = (method :> [error |-> e]) @@ @]

InitEmbed ==
    /\ pc = embedding_methods[1]
    /\ NoNormalize
    /\ triples_a \in TripleLists
    /\ triples_b \in TripleLists
    /\ text_a = <<>>
    /\ text_b = <<>>
    /\ sentence_model = "none"
    /\ random_state = IdleGenerator
    /\ scheduler = OneThread
    /\ NoCall
    /\ results = [status |-> "building", value |-> <<>>]
    /\ NoFiles

\* one iteration of for method in self.embedding_methods
Variant(i) ==
    /\ pc = embedding_methods[i]
    /\ \E outcome \in VariantOutcomes :
          results' =
              IF outcome = "raise"
              THEN record_exception(results, embedding_methods[i], "exception")
              ELSE [results EXCEPT !.value =
                       (embedding_methods[i] :> embedding_entry(triples_a, triples_b)) @@ @]
    /\ pc' = IF results'.status = "raised" THEN "embedded"
             ELSE IF i < Len(embedding_methods) THEN embedding_methods[i + 1]
             ELSE "return results"
    /\ UNCHANGED <<normVars, inputVars, envVars, callVars, fileVars, report>>

TransE == Variant(1)

DistMult == Variant(2)

ComplEx == Variant(3)

\* return results
ReturnEmbeddings ==
    /\ pc = "return results"
    /\ results' = [results EXCEPT !.status = "returned"]
    /\ pc' = "embedded"
    /\ UNCHANGED <<normVars, inputVars, envVars, callVars, fileVars, report>>

NextEmbed ==
    \/ TransE
    \/ DistMult
    \/ ComplEx
    \/ ReturnEmbeddings

SpecEmbed == InitEmbed /\ [][NextEmbed]_vars

\* the variants the loop has finished when it is at position p
VariantsBefore(p) ==
    {embedding_methods[j] : j \in {k \in 1..Len(embedding_methods) :
        \E i \in 1..Len(embedding_methods) : embedding_methods[i] = p /\ k < i}}

\* C13: the three variants are processed one after another; a failure in one
\* is recorded as an error entry under its key and the later variants are
\* still attempted: at each variant the dict holds exactly one entry per
\* earlier variant, and the returned dict has exactly one entry per variant.
C13_VariantFailureIsolated ==
    /\ results.status # "raised"
    /\ pc = "embedded" => results.status = "returned"
    /\ pc \in ToSet(embedding_methods) =>
          (results.status = "building" /\ DOMAIN results.value = VariantsBefore(pc))
    /\ pc \in {"return results", "embedded"} =>
          DOMAIN results.value = ToSet(embedding_methods)

\* the first variant failed, the later two were computed on two non-empty
\* lists, and the dict was returned
C13_Witness ==
    /\ pc = "embedded"
    /\ results.status = "returned"
    /\ results.value["TransE"] = [error |-> "exception"]
    /\ "entity_count" \in DOMAIN results.value["DistMult"]
    /\ "entity_count" \in DOMAIN results.value["ComplEx"]

(***************************************************************************)
(* Unreadable input files, under SpecAnalyze                               *)
(***************************************************************************)
SomeFileUnreadable == ~grokipedia_file.readable \/ ~wikipedia_file.readable

\* C14: when either input file is missing or unreadable analyze_files
\* propagates the error: it returns no report, and it performs no triple
\* extraction and no comparison, for the other file either.
C14_UnreadableFilePropagates ==
    SomeFileUnreadable =>
        /\ pc \in {"read", "done"}
        /\ report.status # "returned"
        /\ pc = "done" => report = [status |-> "raised", exception |-> "OSError"]
        /\ triples_a = <<>> /\ triples_b = <<>>
        /\ text_a = <<>> /\ text_b = <<>>
        /\ results = [status |-> "none"]

\* analyze_files has ended on a readable first file and an unreadable second
C14_Witness ==
    /\ pc = "done"
    /\ grokipedia_file.readable
    /\ WordCount(_read_file(grokipedia_file.content)) > 0
    /\ ~wikipedia_file.readable
    /\ report.status = "raised"

(***************************************************************************)
(* Specification SpecConcurrent: two invocations of compare_graphs on one  *)
(* GraphComparator, on the same arguments, their statements interleaved.   *)
(* pc[p] is the statement invocation p is at: <<i, k>> is statement k of   *)
(* GraphEmbedding.fit for embedding_methods[i]; results[p] holds the       *)
(* locals of p, then what p returned.  The sentence encoder is stateless:  *)
(* it gives the same vectors for the same sentences in every call.  The    *)
(* scheduler lets one invocation run and preempts it at most MaxSwitches   *)
(* times before an invocation has returned.                                *)
(***************************************************************************)
Invocations == {"first", "second"}

StatelessEncode == "dissimilar"

NoEmbedding == [entity_emb |-> "none", relation_emb |-> "none"]

\* statement k of fit (with _train_*) for one variant: what it does to the
\* global generator and to the embeddings of the local GraphEmbedding
fit_statement(g, model, method, k) ==
    IF g.library = "numpy"
    THEN CASE k = 1 -> [random_state |-> seed(g, EmbeddingSeed), model |-> model]
           [] k = 2 -> [random_state |-> advance(g),
                        model |-> [model EXCEPT !.entity_emb = draw(g)]]
           [] k = 3 -> [random_state |-> advance(g),
                        model |-> [model EXCEPT !.relation_emb = draw(g)]]
           [] k = 4 -> IF method = "TransE"
                       THEN [random_state |-> g, model |-> model]
                       ELSE [random_state |-> advance(g),
                             model |-> [model EXCEPT !.relation_emb = draw(g)]]
    ELSE CASE k = 1 -> [random_state |-> advance(g),
                        model |-> [model EXCEPT !.entity_emb = draw(g)]]
           [] k = 2 -> [random_state |-> advance(g),
                        model |-> [model EXCEPT !.relation_emb = draw(g)]]
           [] k = 3 -> [random_state |-> advance(g),
                        model |-> [model EXCEPT !.entity_emb = draw(g)]]
           [] k = 4 -> [random_state |-> advance(g),
                        model |-> [model EXCEPT !.relation_emb = draw(g)]]

\* results[method] of _build_graph_embeddings: the similarities are a
\* function of the embeddings that fit has drawn
similarity_entry(model) ==
    LET entry == embedding_entry(triples_a, triples_b)
    IN  IF IsException(entry) THEN entry
        ELSE [average_similarity |-> model,
              max_similarity |-> model,
              entity_count |-> entry.entity_count,
              relation_count |-> entry.relation_count]

\* results["graph_embeddings"] = graph_embeddings
with_graph_embeddings(r, graph_embeddings) ==
    IF r.status = "raised" THEN r
    ELSE [r EXCEPT !.value.graph_embeddings = graph_embeddings]

\* the dict compare_graphs returns, with the graph_embeddings it has built
report_with(graph_embeddings) ==
    with_graph_embeddings(
        compare_graphs(triples_a, triples_b, text_a, text_b, sentence_model,
                       StatelessEncode),
        graph_embeddings)

Started ==
    [pc |-> <<1, 1>>,
     results |-> [status |-> "running", graph_embeddings |-> <<>>, model |-> NoEmbedding]]

\* one statement of an invocation: the generator and the invocation after it
Step(g, inv) ==
    IF inv.pc = "facets"
    THEN [random_state |-> g, pc |-> "returned",
          results |-> report_with(inv.results.graph_embeddings)]
    ELSE LET i == inv.pc[1]
             k == inv.pc[2]
             after == fit_statement(g, inv.results.model, embedding_methods[i], k)
         IN  IF k < 4
             THEN [random_state |-> after.random_state, pc |-> <<i, k + 1>>,
                   results |-> [inv.results EXCEPT !.model = after.model]]
             ELSE [random_state |-> after.random_state,
                   pc |-> IF i < Len(embedding_methods) THEN <<i + 1, 1>> ELSE "facets",
                   results |-> [inv.results EXCEPT
                       !.graph_embeddings =
                           (embedding_methods[i] :> similarity_entry(after.model)) @@ @,
                       !.model = NoEmbedding]]

RECURSIVE RunAlone(_, _)
\* what an invocation returns when no other invocation runs
RunAlone(g, inv) ==
    IF inv.pc = "returned" THEN inv.results
    ELSE LET after == Step(g, inv)
         IN  RunAlone(after.random_state, [pc |-> after.pc, results |-> after.results])

ConcurrentLists == {<<>>, <<OxBeLab>>, <<OxBeCat>>}

InitConcurrent ==
    /\ pc = [p \in Invocations |-> Started.pc]
    /\ NoNormalize
    /\ triples_a \in ConcurrentLists
    /\ triples_b \in ConcurrentLists
    /\ text_a = <<"a", "\t", "b">>
    /\ text_b = <<"a", "\t", "b">>
    /\ sentence_model = "loaded"
    /\ random_state \in {FreshGenerator(l) : l \in Libraries}
    /\ scheduler \in {[running |-> p, switches |-> 0] : p \in Invocations}
    /\ NoCall
    /\ results = [p \in Invocations |-> Started.results]
    /\ NoFiles

\* invocation p runs its next statement
Advance(p) ==
    /\ pc[p] # "returned"
    /\ scheduler' =
          IF p = scheduler.running THEN scheduler
          ELSE IF pc[scheduler.running] = "returned"
               THEN [scheduler EXCEPT !.running = p]
               ELSE [running |-> p, switches |-> scheduler.switches + 1]
    /\ scheduler'.switches <= MaxSwitches
    /\ \E after \in {Step(random_state, [pc |-> pc[p], results |-> results[p]])} :
           /\ random_state' = after.random_state
           /\ pc' = [pc EXCEPT ![p] = after.pc]
           /\ results' = [results EXCEPT ![p] = after.results]
    /\ UNCHANGED <<normVars, inputVars, sentence_model, callVars, fileVars, report>>

NextConcurrent == \E p \in Invocations : Advance(p)

SpecConcurrent == InitConcurrent /\ [][NextConcurrent]_vars

\* C15: invocations of compare_graphs share no mutable state: in every
\* interleaving of two concurrent invocations each returns the report it
\* returns when it runs alone on the same arguments.
C15_ConcurrentAsAlone ==
    \A p \in Invocations :
        pc[p] = "returned" =>
            results[p] = RunAlone(FreshGenerator(random_state.library), Started)

(***************************************************************************)
(* Divisions, under Spec                                                   *)
(***************************************************************************)
\* the fields of the report that hold the result of a division
RatioFields ==
    <<Report.triple_overlap.exact_overlap_score,
      Report.triple_overlap.fuzzy_overlap_score,
      Report.graph_density.source_a_density,
      Report.graph_density.source_b_density,
      Report.graph_density.density_delta,
      Report.graph_density.density_ratio,
      Report.entity_coherence.coherence_score,
      Report.entity_coherence.average_overlap_ratio,
      Report.provenance_analysis.source_a_cited_percentage,
      Report.provenance_analysis.source_b_cited_percentage,
      Report.provenance_analysis.provenance_quality_score_a,
      Report.provenance_analysis.provenance_quality_score_b,
      Report.provenance_analysis.unsourced_percentage_a,
      Report.provenance_analysis.unsourced_percentage_b>>

\* C16: for all inputs, empty triple lists and texts without a word
\* included, no facet of compare_graphs evaluates a division by zero: each
\* ratio and percentage branches on its empty denominator and yields its
\* default, and every ratio field of a returned report is a number.
C16_NoDivisionByZero ==
    pc = "compared" =>
        /\ ~(results.status = "raised" /\ results.exception = "ZeroDivisionError")
        /\ results.status = "returned" =>
              /\ \A i \in 1..Len(RatioFields) : RatioFields[i] \in Int
              /\ "similar_pairs_percentage" \in DOMAIN Report.semantic_similarity =>
                     Report.semantic_similarity.similar_pairs_percentage \in Int

\* a report was returned for two empty lists and two texts without a word:
\* every denominator of the facets is zero
C16_Witness ==
    /\ Returned
    /\ triples_a = <<>> /\ triples_b = <<>>
    /\ WordCount(text_a) = 0 /\ WordCount(text_b) = 0
    /\ Report.graph_density.density_ratio = 0
    /\ Report.provenance_analysis.unsourced_percentage_a = 0

(***************************************************************************)
(* Specification SpecRead: _read_file on a readable file, for every        *)
(* content of at most MaxLen characters over ReadChars.  grokipedia_file   *)
(* is the file, text_a what _read_file returned.                           *)
(***************************************************************************)
ReadChars == {"h", Marker, " ", "a"}

InitRead ==
    /\ pc = "_read_file"
    /\ NoNormalize
    /\ triples_a = <<>>
    /\ triples_b = <<>>
    /\ text_a = <<>>
    /\ text_b = <<>>
    /\ sentence_model = "none"
    /\ random_state = IdleGenerator
    /\ scheduler = OneThread
    /\ NoCall
    /\ results = [status |-> "none"]
    /\ grokipedia_file \in {[readable |-> TRUE, content |-> c] : c \in BSeq(ReadChars, MaxLen)}
    /\ wikipedia_file = [readable |-> FALSE]
    /\ report = [status |-> "none"]

ReadFile ==
    /\ pc = "_read_file"
    /\ text_a' = _read_file(grokipedia_file.content)
    /\ pc' = "content returned"
    /\ UNCHANGED <<normVars, triples_a, triples_b, text_b, envVars, callVars, results, fileVars,
                   report>>

NextRead == ReadFile

SpecRead == InitRead /\ [][NextRead]_vars

\* the places of the marker in a content
MarkerPlaces(content) == {i \in 1..Len(content) : content[i] = Marker}

\* the text after the first marker of a content that has one
AfterMarker(content) ==
    LET first == CHOOSE i \in MarkerPlaces(content) :
                     \A j \in MarkerPlaces(content) : i <= j
    IN  SubSeq(content, first + 1, Len(content))

\* C17: _read_file returns only the content section whenever the marker
\* occurs in the file: the text after the marker, without the metadata
\* header and the marker; it returns the whole file only when the file has
\* no marker.
C17_ContentSectionOnly ==
    pc = "content returned" =>
        IF MarkerPlaces(grokipedia_file.content) # {}
        THEN text_a = Strip(AfterMarker(grokipedia_file.content))
        ELSE text_a = grokipedia_file.content

(***************************************************************************)
(* Contradiction records, under Spec                                       *)
(***************************************************************************)
\* the pairs (place in triples_a, place in triples_b) of non-noise triples
\* with the same normalised subject and predicate whose normalised objects
\* differ and are not nested
ContradictingPairs ==
    {ij \in NonNoise(triples_a) \X NonNoise(triples_b) :
        /\ NormKey(triples_a[ij[1]]) = NormKey(triples_b[ij[2]])
        /\ NormObject(triples_a[ij[1]]) # NormObject(triples_b[ij[2]])
        /\ ~ObjectsNested(triples_a[ij[1]], triples_b[ij[2]])}

\* C18: contradiction detection returns exactly one record per pair (a, b)
\* of a non-noise side-A triple and a non-noise side-B triple with equal
\* normalised subject and predicate whose normalised objects differ and are
\* not substrings of one another; it returns no other record, does not cap
\* the list, and contradiction_count is the length of the list.
C18_OneRecordPerPair ==
    Returned =>
        LET c == Report.contradictions
            records == c.contradictions
            pairs == ContradictingPairs
        IN  /\ c.contradiction_count = Len(records)
            /\ Len(records) = Cardinality(pairs)
            /\ \A k \in 1..Len(records) :
                  Cardinality({n \in 1..Len(records) : records[n] = records[k]})
                      = Cardinality({ij \in pairs :
                            RecordOf(triples_a[ij[1]], triples_b[ij[2]]) = records[k]})
            /\ \A ij \in pairs :
                  \E k \in 1..Len(records) :
                      records[k] = RecordOf(triples_a[ij[1]], triples_b[ij[2]])

\* one side-B triple contradicts two side-A triples: two records
C18_Witness ==
    /\ Returned
    /\ Len(triples_b) = 1
    /\ Cardinality(ContradictingPairs) = 2
    /\ Report.contradictions.contradiction_count = 2

(***************************************************************************)
(* Specification SpecNoise: _detect_contradictions on lists of at most     *)
(* MaxExtract triples of NoiseUniverse, which has a triple for each        *)
(* pattern of _is_noise_triple next to OxBeLab and OxBeCat.                *)
(***************************************************************************)
\* the sentence of a Commons box
MediaRelatedOx == Triple(<<"O","x">>, <<"b","e">>, <<"C","a","t">>,
    <<"M","e","d","i","a"," ","r","e","l","a","t","e","d"," ","t","o"," ","O","x">>,
    FALSE, "openie_pattern")

\* the sentence names Wikimedia Commons
CommonsSentenceOx == Triple(<<"O","x">>, <<"b","e">>, <<"C","a","t">>,
    <<"O","x"," ","a","t"," ","W","i","k","i","m","e","d","i","a"," ","C","o","m","m","o","n","s">>,
    FALSE, "openie_pattern")

\* the object names Wikimedia Commons, with a whitespace run
CommonsObjectOx == Triple(<<"O","x">>, <<"b","e">>, <<"W","i","k","i","m","e","d","i","a"," "," ","C","o","m","m","o","n","s">>,
    <<"O","x"," ","b","e"," ","i","t">>,
    FALSE, "openie_pattern")

\* the sentence of a link section
ExternalLinksOx == Triple(<<"O","x">>, <<"b","e">>, <<"C","a","t">>,
    <<"E","x","t","e","r","n","a","l"," ","l","i","n","k","s"," ","O","x">>,
    FALSE, "openie_pattern")

\* see also, in a sentence of three words
SeeAlsoShortOx == Triple(<<"O","x">>, <<"b","e">>, <<"C","a","t">>,
    <<"S","e","e"," ","a","l","s","o"," ","O","x">>,
    FALSE, "openie_pattern")

\* see also, in a sentence of ten words
SeeAlsoLongOx == Triple(<<"O","x">>, <<"b","e">>, <<"C","a","t">>,
    <<"s","e","e"," ","a","l","s","o"," ","a"," ","b"," ","c"," ","d"," ","e"," ","f"," ","g"," ","h">>,
    FALSE, "openie_pattern")

\* the predicate of XaY, another object
XaZ == Triple(<<"x">>, <<"a">>, <<"z">>,
    <<"x"," ","a"," ","z">>,
    FALSE, "openie_pattern")

\* a metadata predicate, in upper case
XFileY == Triple(<<"x">>, <<"F","i","l","e">>, <<"z">>,
    <<"x"," ","f","i","l","e"," ","z">>,
    FALSE, "openie_pattern")

\* a predicate of whitespace only
XBlankY == Triple(<<"x">>, <<" ">>, <<"z">>,
    <<"x"," ","z">>,
    FALSE, "openie_pattern")

NoiseUniverse ==
    {OxBeLab, OxBeCat, MediaRelatedOx, CommonsSentenceOx, CommonsObjectOx,
     ExternalLinksOx, SeeAlsoShortOx, SeeAlsoLongOx, XaY, XaZ, XFileY, XBlankY}

InitNoise ==
    /\ pc = "_detect_contradictions"
    /\ NoNormalize
    /\ triples_a \in BSeq(NoiseUniverse, MaxExtract)
    /\ triples_b \in BSeq(NoiseUniverse, MaxExtract)
    /\ text_a = <<>>
    /\ text_b = <<>>
    /\ sentence_model = "none"
    /\ random_state = IdleGenerator
    /\ scheduler = OneThread
    /\ NoCall
    /\ results = [status |-> "none"]
    /\ NoFiles

DetectContradictions ==
    /\ pc = "_detect_contradictions"
    /\ results' = [status |-> "returned",
                   value |-> [contradictions |->
                                  _detect_contradictions(triples_a, triples_b)]]
    /\ pc' = "detected"
    /\ UNCHANGED <<normVars, inputVars, envVars, callVars, fileVars, report>>

NextNoise == DetectContradictions

SpecNoise == InitNoise /\ [][NextNoise]_vars

\* noise as the sentence and the normalised predicate decide it
ListedNoise(t) ==
    LET sentence == Lower(t.sentence)
        predicate == _normalize_text(t.predicate)
    IN  \/ IsSubstring(MediaRelatedTo, sentence)
        \/ IsSubstring(ExternalLinks, sentence)
        \/ (IsSubstring(SeeAlso, sentence) /\ WordCount(sentence) < ShortSentenceWords)
        \/ predicate = <<>>
        \/ Len(predicate) < MinPredicateLen
        \/ predicate \in {<<"a">>, <<"a","n">>, <<"t","h","e">>}
        \/ predicate \in MetadataPredicates

\* noise by Wikimedia Commons being named in the sentence or in the object
CommonsNoise(t) ==
    \/ IsSubstring(WikimediaCommons, Lower(t.sentence))
    \/ IsSubstring(WikimediaCommons, _normalize_text(t.object))

\* every record comes from a pair of triples that are not noise, and the
\* two counters count the noise triples of each side
NoiseKeptOut(Noise(_)) ==
    pc = "detected" =>
        LET c == Report.contradictions
        IN  /\ \A k \in 1..Len(c.contradictions) :
                  \E i \in 1..Len(triples_a), j \in 1..Len(triples_b) :
                      /\ ~Noise(triples_a[i]) /\ ~Noise(triples_b[j])
                      /\ c.contradictions[k] = RecordOf(triples_a[i], triples_b[j])
            /\ c.filtered_noise_triples_a =
                  Cardinality({i \in 1..Len(triples_a) : Noise(triples_a[i])})
            /\ c.filtered_noise_triples_b =
                  Cardinality({j \in 1..Len(triples_b) : Noise(triples_b[j])})

\* C19: a triple classified as noise (its sentence contains "media related
\* to" or "external links", or "see also" in fewer than 10 words, or its
\* normalised predicate is empty, shorter than 2 characters, one of a/an/the
\* or one of media/category/template/file) takes part in no contradiction
\* record, and filtered_noise_triples_a and filtered_noise_triples_b are the
\* numbers of such triples of each side.
C19_ListedNoiseFiltered == NoiseKeptOut(ListedNoise)

\* C19 with the noise triples being those listed and those whose sentence or
\* normalised object contains "wikimedia commons": they take part in no
\* contradiction record and the two counters are their numbers.
C19_NoiseFiltered == NoiseKeptOut(LAMBDA t : ListedNoise(t) \/ CommonsNoise(t))

\* a noise triple met a triple of its subject and predicate with an
\* incompatible object, and was counted and not recorded
C19_Witness ==
    /\ pc = "detected"
    /\ triples_a = <<OxBeLab>>
    /\ triples_b \in {<<ExternalLinksOx>>, <<CommonsSentenceOx>>, <<SeeAlsoShortOx>>}
    /\ Report.contradictions.filtered_noise_triples_b = 1
    /\ Report.contradictions.contradiction_count = 0

(***************************************************************************)
(* Specification SpecCap: _build_graph_embeddings on lists around the      *)
(* limit of EmbeddingLimit triples: one triple repeated up to the limit or *)
(* one short of it, then at most MaxExtract more triples.                  *)
(***************************************************************************)
Repeat(t, n) == [i \in 1..n |-> t]

LongLists ==
    {Repeat(t, n) \o tail :
        t \in {OxBeLab, XaY},
        n \in {EmbeddingLimit - 1, EmbeddingLimit},
        tail \in BSeq(Universe, MaxExtract)}

InitCap ==
    /\ pc = "_build_graph_embeddings"
    /\ NoNormalize
    /\ triples_a \in LongLists
    /\ triples_b \in LongLists \cup BSeq(Universe, MaxExtract)
    /\ text_a = <<>>
    /\ text_b = <<>>
    /\ sentence_model = "none"
    /\ random_state = IdleGenerator
    /\ scheduler = OneThread
    /\ NoCall
    /\ results = [status |-> "none"]
    /\ NoFiles

BuildGraphEmbeddings ==
    /\ pc = "_build_graph_embeddings"
    /\ results' = [status |-> "returned",
                   value |-> [graph_embeddings |->
                                  _build_graph_embeddings(triples_a, triples_b)]]
    /\ pc' = "built"
    /\ UNCHANGED <<normVars, inputVars, envVars, callVars, fileVars, report>>

NextCap == BuildGraphEmbeddings

SpecCap == InitCap /\ [][NextCap]_vars

\* C20: the graph-embedding facet is computed from at most the first 100
\* triples of each side, the model of each variant being fitted on the union
\* of the capped lists: inputs that agree on the first 100 triples of each
\* side, among them the input cut at position 100, yield the same
\* entity_count and relation_count for every variant.
C20_CappedAtFirstHundred ==
    pc = "built" =>
        Report.graph_embeddings =
            _build_graph_embeddings(FirstN(triples_a, EmbeddingLimit),
                                    FirstN(triples_b, EmbeddingLimit))

(***************************************************************************)
(* Specification SpecCoherence: _calculate_entity_coherence for one entity *)
(* that is a subject in both sources.  Of at most MaxRelations relations   *)
(* of the entity, source A states the first Len(triples_a) and source B a  *)
(* run that starts inside, or right after, those of source A.              *)
(***************************************************************************)
\* the relations from-th to to-th of the entity Ox: Ox be r, Ox be rr, ...
Relations(from, to) ==
    LET Relation(i) ==
            Triple(<<"O","x">>, <<"b","e">>, [k \in 1..i |-> "r"],
                   <<"O","x"," ","b","e">>, FALSE, "openie_pattern")
    IN  [i \in 1..(to - from + 1) |-> Relation(from + i - 1)]

InitCoherence ==
    /\ pc = "_calculate_entity_coherence"
    /\ NoNormalize
    /\ \E a \in 1..MaxRelations, k \in 1..MaxRelations, n \in 1..MaxRelations :
          /\ k <= a + 1 /\ k <= n /\ a <= n
          /\ triples_a = Relations(1, a)
          /\ triples_b = Relations(k, n)
    /\ text_a = <<>>
    /\ text_b = <<>>
    /\ sentence_model = "none"
    /\ random_state = IdleGenerator
    /\ scheduler = OneThread
    /\ NoCall
    /\ results = [status |-> "none"]
    /\ NoFiles

CalculateEntityCoherence ==
    /\ pc = "_calculate_entity_coherence"
    /\ results' = [status |-> "returned",
                   value |-> [entity_coherence |->
                                  _calculate_entity_coherence(triples_a, triples_b)]]
    /\ pc' = "coherence"
    /\ UNCHANGED <<normVars, inputVars, envVars, callVars, fileVars, report>>

NextCoherence == CalculateEntityCoherence

SpecCoherence == InitCoherence /\ [][NextCoherence]_vars

\* the relation sets of the one entity: their intersection and their union
SharedRelations == Cardinality(ToSet(triples_a) \cap ToSet(triples_b))

AllRelations == Cardinality(ToSet(triples_a) \cup ToSet(triples_b))

\* C21: with r = |intersection| / |union| of the two relation sets of a
\* common entity, r > 0.3 counts it as consistent, 0.1 <= r <= 0.3 as
\* partially consistent, and r < 0.1 makes it inconsistent: an entity with r
\* exactly 0.1 is counted in partially_consistent_entities and is not listed
\* in inconsistent_examples.
C21_CoherenceBuckets ==
    pc = "coherence" =>
        LET c == Report.entity_coherence
            consistent == 10 * SharedRelations > 3 * AllRelations
            partially == /\ 10 * SharedRelations >= AllRelations
                         /\ 10 * SharedRelations <= 3 * AllRelations
            inconsistent == 10 * SharedRelations < AllRelations
        IN  /\ c.common_entities = 1
            /\ c.consistent_entities = (IF consistent THEN 1 ELSE 0)
            /\ c.partially_consistent_entities = (IF partially THEN 1 ELSE 0)
            /\ (c.inconsistent_examples # {}) <=> inconsistent

(***************************************************************************)
(* Citation flags of the extracted triples, under SpecExtract              *)
(***************************************************************************)
ExtractReturned == pc = "extracted" /\ results.status = "returned"

\* C22: for every triple that extract_triples returns, whichever strategy
\* produced it, has_citation equals the result of the citation detector
\* applied to the triple's source sentence.
C22_CitationFlagIsDetector ==
    ExtractReturned =>
        \A i \in 1..Len(results.value) :
            results.value[i].has_citation = _has_citation(results.value[i].sentence)

(***************************************************************************)
(* Specification SpecCitation: _has_citation called on a sentence that     *)
(* holds one attribution phrase, after a prefix, followed at a distance by *)
(* what may indicate a source.  text is the argument.                      *)
(***************************************************************************)
CitationSentences ==
    LET Xs(n) == [i \in 1..n |-> "x"]
        Prefixes == {<<>>, <<"s","o"," ">>}
        \* how many characters stand between the phrase and what follows it
        Distances == {0, FollowingChars - 10, FollowingChars}
        Followers == {<<>>, <<" ","x">>, <<" ","1">>, <<" ","2","0","2","4">>,
                      <<" ","S","m","i","t","h"," ","e","t"," ","a","l">>, <<" ","(","x">>, <<" ","[","x">>}
    IN  {prefix \o citation_phrases[n] \o Xs(distance) \o follower :
            prefix \in Prefixes, n \in 1..Len(citation_phrases),
            distance \in Distances, follower \in Followers}

InitCitation ==
    /\ pc = "_has_citation"
    /\ text \in CitationSentences
    /\ once = <<>>
    /\ twice = <<>>
    /\ triples_a = <<>>
    /\ triples_b = <<>>
    /\ text_a = <<>>
    /\ text_b = <<>>
    /\ sentence_model = "none"
    /\ random_state = IdleGenerator
    /\ scheduler = OneThread
    /\ NoCall
    /\ results = [status |-> "none"]
    /\ NoFiles

HasCitation ==
    /\ pc = "_has_citation"
    /\ results' = [status |-> "returned", value |-> _has_citation(text)]
    /\ pc' = "cited"
    /\ UNCHANGED <<normVars, inputVars, envVars, callVars, fileVars, report>>

NextCitation == HasCitation

SpecCitation == InitCitation /\ [][NextCitation]_vars

\* the sentence holds an attribution phrase
HasAttributionPhrase(sentence) ==
    \E n \in 1..Len(citation_phrases) : IsSubstring(citation_phrases[n], Lower(sentence))

\* the sentence holds a citation marker that is no attribution phrase
OtherMarker(sentence) ==
    LET text_lower == Lower(sentence)
    IN  \/ citation_regex_found(text_lower)
        \/ \E pattern \in citation_literals \ ToSet(citation_phrases) :
              IsSubstring(pattern, text_lower)

\* within the 50 characters after an attribution phrase stands a digit, a
\* capitalized name followed by "et al", or a bracket or parenthesis
FollowedBySource(sentence) ==
    \E n \in 1..Len(citation_phrases) :
        LET phrase == citation_phrases[n]
            phrase_end == find(Lower(sentence), phrase) + Len(phrase)
            after == Slice(sentence, phrase_end, phrase_end + FollowingChars)
        IN  /\ IsSubstring(phrase, Lower(sentence))
            /\ \/ \E i \in 1..Len(after) : IsDigit(after[i])
               \/ NameEtAl(after)
               \/ \E i \in 1..Len(after) : after[i] \in {"[", "]", "(", ")"}

\* C23: for a sentence that holds an attribution phrase and no other
\* citation marker, the detector returns true only if a digit, a capitalized
\* name followed by "et al", or a bracket or parenthesis stands within the 50
\* characters after the phrase; a bare attribution phrase yields false.
C23_BareAttributionNotCited ==
    (pc = "cited" /\ HasAttributionPhrase(text) /\ ~OtherMarker(text)) =>
        (results.value => FollowedBySource(text))

(***************************************************************************)
(* The entity-pair strategy, under SpecExtract                             *)
(***************************************************************************)
\* t states a relation between two entities of d that lie in one sentence,
\* the second starting after the first ends, with 1 to 9 tokens strictly
\* between them, one of them no stopword
SameSentencePair(d, t) ==
    \E i \in 1..Len(d.ents) : \E j \in 1..Len(d.ents) :
        LET a == d.ents[i]
            b == d.ents[j]
            between == Span(d, a.end, b.start)
        IN  /\ t.subject = SpanText(Span(d, a.start, a.end))
            /\ t.object = SpanText(Span(d, b.start, b.end))
            /\ b.start >= a.end
            /\ d.tokens[a.start + 1].sent = d.tokens[b.end].sent
            /\ Len(between) >= 1 /\ Len(between) <= 9
            /\ \E k \in 1..Len(between) : ~between[k].is_stop

\* C24: the entity-pair strategy emits a triple (A, predicate, B) only for
\* named entities A and B of one sentence, B starting after A ends, with 1 to
\* 9 tokens strictly between them of which one at least is no stopword; it
\* never emits a triple for two entities that lie in different sentences.
C24_EntityPairsWithinSentence ==
    pc \in {"nominal_relation", "return"} =>
        \A i \in 1..Len(triples_a) :
            triples_a[i].extraction_method = "entity_relation"
                => SameSentencePair(doc, triples_a[i])

\* C25: extract_triples returns the concatenation of the outputs of the four
\* strategies in the order dependency, surface pattern, entity pair, nominal,
\* with nothing removed: the length is the sum of the four lengths, a
\* statement that two strategies produce appears twice, and every triple
\* carries the source tag passed to the call.
C25_ConcatenationOfStrategies ==
    [][pc = "return" =>
          LET others == results.openie_triples \o results.entity_triples
                            \o results.nominal_triples
              value == results'.value
              dependency == SubSeq(value, 1, Len(value) - Len(others))
          IN  /\ results'.status = "returned"
              /\ Len(value) >= Len(others)
              /\ value = dependency \o others
              /\ \A i \in 1..Len(dependency) :
                    dependency[i].extraction_method = "dependency_parsing"
              /\ \A i \in 1..Len(value) : value[i].source = source
              /\ results.entity_triples = _extract_entity_relations(doc, source)]_vars

C25_Witness ==
    /\ ExtractReturned
    /\ source = "grokipedia"
    /\ \E i \in 1..Len(results.value) : \E j \in (i + 1)..Len(results.value) :
          /\ results.value[i].subject = results.value[j].subject
          /\ results.value[i].predicate = results.value[j].predicate
          /\ results.value[i].object = results.value[j].object
          /\ results.value[i].extraction_method = "dependency_parsing"
          /\ results.value[j].extraction_method = "openie_pattern"
    /\ \E i \in 1..Len(results.value) :
          results.value[i].extraction_method = "entity_relation"
    /\ \E i \in 1..Len(results.value) :
          results.value[i].extraction_method = "nominal_relation"

(***************************************************************************)
(* Repeated fits, under SpecConcurrent: a run whose scheduler never        *)
(* preempts is the second comparison after the first has returned.          *)
(***************************************************************************)
OneAfterTheOther ==
    /\ \A p \in Invocations : pc[p] = "returned" /\ results[p].status = "returned"
    /\ scheduler.switches = 0

\* C26: graph embeddings are reproducible: fitting twice on the same triple
\* list with the same variant yields identical vectors, so that the
\* graph_embeddings facet is the same on repeated comparisons of the same
\* inputs.
C26_EmbeddingsReproducible ==
    OneAfterTheOther =>
        results["first"].value.graph_embeddings
            = results["second"].value.graph_embeddings

(***************************************************************************)
(* Entity identity in the embedding space, under Spec                      *)
(***************************************************************************)
\* the entity strings of both lists, normalised
NormalizedEntities ==
    LET all_triples == triples_a \o triples_b
    IN  {_normalize_text(all_triples[i].subject) : i \in 1..Len(all_triples)}
            \cup {_normalize_text(all_triples[i].object) : i \in 1..Len(all_triples)}

\* C27: in the embedding space the identity of an entity is its normalised
\* string: entity strings that differ only in letter case or in whitespace
\* get one id and one vector, and entity_count is the number of distinct
\* normalised entities.
C27_EntityCountNormalized ==
    Returned =>
        \A method \in DOMAIN Report.graph_embeddings :
            ~IsException(Report.graph_embeddings[method]) =>
                Report.graph_embeddings[method].entity_count
                    = Cardinality(NormalizedEntities)

(***************************************************************************)
(* Specification SpecProcess: the analyses of one server process.  Each    *)
(* run_analysis (api.py) constructs a KnowledgeGraphAnalyzer, whose        *)
(* constructor constructs a TripleExtractor, whose constructor loads the   *)
(* spaCy model and the sentence encoder; then it calls analyze_files on    *)
(* the two files it has fetched.  loads counts the loads that succeeded.   *)
(***************************************************************************)
EncoderOutcomes == {"loaded", "failed", "unavailable"}

InitProcess ==
    /\ pc = "idle"
    /\ NoNormalize
    /\ triples_a = <<>>
    /\ triples_b = <<>>
    /\ text_a = <<>>
    /\ text_b = <<>>
    /\ sentence_model = "none"
    /\ random_state = IdleGenerator
    /\ scheduler = OneThread
    /\ NoCall
    /\ results = [status |-> "none"]
    /\ NoFiles

\* analyzer = KnowledgeGraphAnalyzer(), then the call of analyze_files
NewAnalyzer ==
    /\ pc \in {"idle", "done"}
    /\ loads.nlp < MaxAnalyses
    /\ \E encoder \in EncoderOutcomes :
          /\ sentence_model' = IF encoder = "loaded" THEN "loaded" ELSE "none"
          /\ loads' = [nlp |-> loads.nlp + 1,
                       sentence_model |->
                           loads.sentence_model + (IF encoder = "loaded" THEN 1 ELSE 0)]
    /\ grokipedia_file' \in Files
    /\ wikipedia_file' \in Files
    /\ triples_a' = <<>>
    /\ triples_b' = <<>>
    /\ text_a' = <<>>
    /\ text_b' = <<>>
    /\ results' = [status |-> "none"]
    /\ report' = [status |-> "none"]
    /\ pc' = "read"
    /\ UNCHANGED <<normVars, random_state, scheduler, source, doc>>

NextProcess ==
    \/ NewAnalyzer
    \/ ReadFiles
    \/ ExtractGrokipedia
    \/ ExtractWikipedia
    \/ CompareGraphs
    \/ ReturnReport

SpecProcess == InitProcess /\ [][NextProcess]_vars

\* C28: across any sequence of analyses in one process the parse model and
\* the sentence encoder are each loaded at most once and reused: a second
\* analysis never triggers another load.
C28_ModelsLoadedOnce ==
    /\ loads.nlp <= 1
    /\ loads.sentence_model <= 1

(***************************************************************************)
(* Provenance and contradictions when the sources are exchanged, under     *)
(* Spec                                                                    *)
(***************************************************************************)
Min(a, b) == IF a <= b THEN a ELSE b

\* C29: cited_overlap never exceeds the smaller of the two cited counts:
\* cited_overlap <= min(source_a_cited, source_b_cited).
C29_CitedOverlapAtMostMin ==
    Returned =>
        Report.provenance_analysis.cited_overlap
            <= Min(Report.provenance_analysis.source_a_cited,
                   Report.provenance_analysis.source_b_cited)

\* C30: exchanging the two sources does not change the number of
\* contradictions: _detect_contradictions(A, B) and _detect_contradictions(B, A)
\* report the same contradiction_count, with the two filtered-noise counts
\* exchanged.
C30_ContradictionCountSymmetric ==
    Returned =>
        LET exchanged == _detect_contradictions(triples_b, triples_a)
        IN  /\ Report.contradictions.contradiction_count = exchanged.contradiction_count
            /\ Report.contradictions.filtered_noise_triples_a
                   = exchanged.filtered_noise_triples_b
            /\ Report.contradictions.filtered_noise_triples_b
                   = exchanged.filtered_noise_triples_a

C30_Witness ==
    /\ Returned
    /\ Report.contradictions.contradiction_count = 1
    /\ Report.contradictions.filtered_noise_triples_a = 1
    /\ Report.contradictions.filtered_noise_triples_b = 0
    /\ Len(triples_a) # Len(triples_b)

====
